---------------------------- MODULE Spec2Model ----------------------------
(***************************************************************************)
(* A model of news_agent/hyperliquid.py: the fill normalizer, the          *)
(* per-symbol position state tracker (_PositionState.apply_fill), the      *)
(* trade aggregator and the position history reconstructor; of the         *)
(* backtest, the trade scan, the wallet scoring and the consensus signal   *)
(* of the report scripts; and of the engine's ingestion with               *)
(* deduplication and its PersonalizationModel.                             *)
(*                                                                         *)
(* Python floats are modelled as exact rationals <<n, d>> (d > 0, lowest   *)
(* terms); sizes, prices and fees of the inputs are whole numbers of an    *)
(* arbitrary unit, so signed sizes stay integers while the average entry   *)
(* and the realized P&L are fractions.                                     *)
(***************************************************************************)
EXTENDS Integers, Sequences, FiniteSets, TLC

(***************************************************************************)
(* Bounds of the model.                                                    *)
(***************************************************************************)
\* Fills applied to one _PositionState in the tracker specification.
MaxSteps == 4
\* Largest fill size and fill price the tracker specification draws.
MaxSize == 2
MaxPrice == 2
\* Longest raw fill list handed to the aggregator / reconstructor.
MaxFills == 2
\* Longest price series the backtest specification draws.
MaxBars == 3
\* Longest position series the trade scan specification draws.
MaxScan == 4
\* Hourly bars of the wallet specification.
MaxHours == 9
\* Hourly bars and largest weight of the consensus specification.
MaxSlots == 2
MaxWeight == 2
\* Longest news stream handed to the engine.
MaxPayloads == 2
\* Largest count of engagements, and of dismissals, of one category.
MaxFeedback == 3
MaxWallets == 9

(***************************************************************************)
(* Exact arithmetic standing for the float arithmetic of apply_fill.       *)
(***************************************************************************)
Abs(x) == IF x < 0 THEN -x ELSE x

RECURSIVE Gcd(_, _)
Gcd(a, b) == IF b = 0 THEN a ELSE Gcd(b, a % b)

\* The fraction n/d (d # 0) in lowest terms with a positive denominator.
Rat(n, d) ==
    LET g == Gcd(Abs(n), Abs(d))
        s == IF d < 0 THEN -1 ELSE 1
    IN  <<(s * n) \div g, (s * d) \div g>>

R(n) == <<n, 1>>
RAdd(a, b) == Rat(a[1] * b[2] + b[1] * a[2], a[2] * b[2])
RSub(a, b) == Rat(a[1] * b[2] - b[1] * a[2], a[2] * b[2])
RMul(a, b) == Rat(a[1] * b[1], a[2] * b[2])
\* a / k for an integer k # 0.
RDivInt(a, k) == Rat(a[1], a[2] * k)
RPos(a) == a[1] > 0
Zero == R(0)

(***************************************************************************)
(* _PositionState: signed_size (positive long, negative short) and         *)
(* average_entry; a fresh object is (0.0, 0.0).                            *)
(***************************************************************************)
PositionState0 == [signed_size |-> 0, average_entry |-> Zero]

\* signed_change = size if side == "buy" else -size
SignedChange(side, size) == IF side = "buy" THEN size ELSE -size

\* The guard of the open / same-direction branch of apply_fill.
SameDirection(previous_size, signed_change) ==
    \/ previous_size = 0
    \/ (previous_size > 0 /\ signed_change > 0)
    \/ (previous_size < 0 /\ signed_change < 0)

\* The test that separates a flip through zero from a partial close.
FlipsSign(previous_size, new_size) ==
    \/ (previous_size > 0 /\ new_size < 0)
    \/ (previous_size < 0 /\ new_size > 0)

\* A variant that always reports the fill price as the entry price.
EntryPriceFill(previous_entry, price) == R(price)

\* entry_price = previous_entry if previous_entry > 0 else price
EntryPriceDefault(previous_entry, price) ==
    IF RPos(previous_entry) THEN previous_entry ELSE R(price)

\* A variant that averages the two prices without their sizes.
WeightedEntryMean(previous_size, previous_entry, signed_change, price, new_size) ==
    RDivInt(RAdd(previous_entry, R(price)), 2)

\* The volume-weighted average entry after adding to an open position.
WeightedEntry(previous_size, previous_entry, signed_change, price, new_size) ==
    RDivInt(RAdd(RMul(R(Abs(previous_size)), previous_entry),
                 RMul(R(Abs(signed_change)), R(price))),
            Abs(new_size))

\* A variant that closes the whole fill size, without the min.
ClosingSizeFill(previous_size, signed_change) == Abs(signed_change)

\* closing_size = min(abs(previous_size), abs(signed_change))
ClosingSize(previous_size, signed_change) ==
    IF Abs(previous_size) < Abs(signed_change)
    THEN Abs(previous_size) ELSE Abs(signed_change)

\* direction = 1.0 if previous_size > 0 else -1.0
Direction(previous_size) == IF previous_size > 0 THEN 1 ELSE -1

\* A variant that leaves the direction out of the realized gain.
RealizedNoDirection(closing_size, price, previous_entry, direction) ==
    RMul(R(closing_size), RSub(R(price), previous_entry))

\* realized = closing_size * (price - previous_entry) * direction
Realized(closing_size, price, previous_entry, direction) ==
    RMul(RMul(R(closing_size), RSub(R(price), previous_entry)), R(direction))

\* A variant that forgets to reset the average entry.
FlatEntryKept(previous_entry) == previous_entry

\* average_entry written when the fill brings the position to exactly zero.
FlatEntry(previous_entry) == Zero

\* A variant that keeps the closed position's average entry after a flip.
FlippedEntryStale(previous_entry, price) == previous_entry

\* average_entry written when the fill flips the position through zero.
FlippedEntry(previous_entry, price) == R(price)

\* average_entry written when the fill closes only part of the position.
PartialEntry(previous_entry, price) == previous_entry

\* apply_fill(side, size, price) on the state st: the state after the call
\* together with the returned (realized, entry_price, exit_price).
apply_fill(st, side, size, price) ==
    LET signed_change  == SignedChange(side, size)
        previous_size  == st.signed_size
        previous_entry == st.average_entry
        entry_price    == EntryPriceDefault(previous_entry, price)
        new_size       == previous_size + signed_change
    IN  IF SameDirection(previous_size, signed_change)
        THEN LET avg == IF previous_size = 0
                        THEN R(price)
                        ELSE IF Abs(new_size) > 0
                             THEN WeightedEntry(previous_size, previous_entry,
                                                signed_change, price, new_size)
                             ELSE previous_entry
             IN  [signed_size |-> new_size, average_entry |-> avg,
                  realized |-> Zero, entry_price |-> avg, exit_price |-> Zero]
        ELSE LET closing_size == ClosingSize(previous_size, signed_change)
                 direction    == Direction(previous_size)
                 realized     == Realized(closing_size, price, previous_entry, direction)
             IN  IF new_size = 0
                 THEN [signed_size |-> 0, average_entry |-> FlatEntry(previous_entry),
                       realized |-> realized, entry_price |-> entry_price,
                       exit_price |-> R(price)]
                 ELSE IF FlipsSign(previous_size, new_size)
                 THEN [signed_size |-> new_size,
                       average_entry |-> FlippedEntry(previous_entry, price),
                       realized |-> realized,
                       entry_price |-> FlippedEntry(previous_entry, price),
                       exit_price |-> R(price)]
                 ELSE [signed_size |-> new_size,
                       average_entry |-> PartialEntry(previous_entry, price),
                       realized |-> realized, entry_price |-> entry_price,
                       exit_price |-> R(price)]

(***************************************************************************)
(* Raw fills: mappings from keys to loosely typed values.  A value is      *)
(* None, a number, a string, or one of the timestamp encodings.  Instants  *)
(* are whole seconds counted from a shifted origin so that they fit the    *)
(* model's integers: the tag "msnum" records that the number is above      *)
(* 10_000_000_000 (epoch milliseconds), the tag "num" that it is not.      *)
(***************************************************************************)
NoneV == [t |-> "none"]
Num(n) == [t |-> "num", v |-> n]
MsNum(n) == [t |-> "msnum", v |-> n]
Iso(n) == [t |-> "iso", v |-> n]
Str(x) == [t |-> "str", s |-> x]

Keys == {"coin", "symbol", "asset", "tid", "tradeId", "hash", "oid",
         "time", "timestamp", "ts", "side", "dir", "sz", "size", "sizeDelta",
         "px", "price", "avgPx", "fee", "feePaid"}

\* dict.get(key): None when the key is absent.
Get(fill, key) == IF key \in DOMAIN fill THEN fill[key] ELSE NoneV

\* Python truthiness of a value, as `a or b` tests it.
Truthy(v) ==
    CASE v.t = "none" -> FALSE
      [] v.t = "str" -> v.s # ""
      [] v.t = "num" -> v.v # 0
      [] OTHER -> TRUE

\* a or b or c or d
RECURSIVE FirstTruthy(_, _)
FirstTruthy(vals, default) ==
    IF vals = <<>> THEN default
    ELSE IF Truthy(Head(vals)) THEN Head(vals)
    ELSE FirstTruthy(Tail(vals), default)

\* str.upper() on the symbols of the model.
Upper(x) ==
    CASE x = "btc" -> "BTC"
      [] x = "eth" -> "ETH"
      [] OTHER -> x

\* str.lower() on the side hints of the model.
Lower(x) ==
    CASE x = "Sell" -> "sell"
      [] x = "Buy" -> "buy"
      [] x = "Open Short" -> "open short"
      [] x = "Open Long" -> "open long"
      [] OTHER -> x

\* "sell" in side_raw or "short" in side_raw
HasSellHint(x) == x \in {"sell", "short", "open short"}
\* "buy" in side_raw or "long" in side_raw
HasBuyHint(x) == x \in {"buy", "long", "open long"}

\* float(str(value)) succeeds.
FloatOk(v) == v.t = "num"

\* _safe_float(*values, default): the first value that is not None and parses.
RECURSIVE safe_float(_, _)
safe_float(vals, default) ==
    IF vals = <<>> THEN default
    ELSE IF Head(vals).t # "none" /\ FloatOk(Head(vals)) THEN Head(vals).v
    ELSE safe_float(Tail(vals), default)

\* parse_timestamp raises (TypeError / ValueError) on this value.
ParseFails(v) == v.t \notin {"num", "msnum", "iso"}

\* parse_timestamp(value) where it does not raise.
parse_timestamp(v) ==
    CASE v.t = "msnum" -> v.v \div 1000
      [] OTHER -> v.v

\* datetime.fromtimestamp(0, tz=utc)
Epoch0 == 0

\* _fill_sort_key: the first of time / timestamp / ts that is present and
\* parses; the epoch when there is none.
RECURSIVE SortKeyFrom(_, _)
SortKeyFrom(fill, keys) ==
    IF keys = <<>> THEN Epoch0
    ELSE LET value == Get(fill, Head(keys))
         IN  IF value.t = "none" THEN SortKeyFrom(fill, Tail(keys))
             ELSE IF ParseFails(value) THEN SortKeyFrom(fill, Tail(keys))
             ELSE parse_timestamp(value)

fill_sort_key(fill) == SortKeyFrom(fill, <<"time", "timestamp", "ts">>)

\* if size == 0: return None
SizeRejected(size) == size = 0
\* A variant that rejects only a zero price.
PriceRejectedZeroOnly(price) == price = 0

\* if price <= 0: return None
PriceRejected(price) == price <= 0
\* if not symbol: return None
SymbolRejected(symbol) == symbol = ""

\* _normalize_fill(wallet, fill): a _NormalizedFill, or None.
normalize_fill(wallet, fill) ==
    LET symv   == FirstTruthy(<<Get(fill, "coin"), Get(fill, "symbol"),
                                Get(fill, "asset")>>, Str(""))
        symbol == Upper(symv.s)
        idv    == FirstTruthy(<<Get(fill, "tid"), Get(fill, "tradeId"),
                                Get(fill, "hash"), Get(fill, "oid")>>, Str(""))
        trade_id == IF Truthy(idv) THEN idv
                    ELSE [t |-> "synth", wallet |-> wallet, symbol |-> symbol,
                          raw |-> FirstTruthy(<<Get(fill, "time"),
                                                Get(fill, "timestamp")>>, Str("0"))]
        sidev    == FirstTruthy(<<Get(fill, "side"), Get(fill, "dir")>>, Str(""))
        side_raw == Lower(sidev.s)
        size_guess == safe_float(<<Get(fill, "sz"), Get(fill, "size"),
                                   Get(fill, "sizeDelta")>>, 0)
        side == IF HasSellHint(side_raw) THEN "sell"
                ELSE IF HasBuyHint(side_raw) THEN "buy"
                ELSE IF size_guess >= 0 THEN "buy" ELSE "sell"
        size  == Abs(size_guess)
        price == safe_float(<<Get(fill, "px"), Get(fill, "price"),
                              Get(fill, "avgPx")>>, 0)
        fee   == Abs(safe_float(<<Get(fill, "fee"), Get(fill, "feePaid")>>, 0))
    IN  IF SymbolRejected(symbol) THEN NoneV
        ELSE IF SizeRejected(size) THEN NoneV
        ELSE IF PriceRejected(price) THEN NoneV
        ELSE [t |-> "fill", trade_id |-> trade_id, symbol |-> symbol,
              side |-> side, size |-> size, price |-> price, fee |-> fee,
              timestamp |-> fill_sort_key(fill)]

\* [_normalize_fill(wallet, fill) for fill in fills], the None results removed.
RECURSIVE NormalizeAll(_, _)
NormalizeAll(wallet, fills) ==
    IF fills = <<>> THEN <<>>
    ELSE LET n == normalize_fill(wallet, Head(fills))
         IN  IF n.t = "none" THEN NormalizeAll(wallet, Tail(fills))
             ELSE <<n>> \o NormalizeAll(wallet, Tail(fills))

\* A variant that also moves x in front of its equals.
GoesBeforeOrEqual(x, y) == x.timestamp <= y.timestamp

\* A variant that moves x in front of nothing, leaving the input order.
GoesBeforeNone(x, y) == FALSE

\* list.sort compares keys with <: x goes before the first element whose
\* timestamp is greater, behind its equals (the sort is stable).
GoesBefore(x, y) == x.timestamp < y.timestamp

RECURSIVE InsertSorted(_, _)
InsertSorted(x, sorted) ==
    IF sorted = <<>> THEN <<x>>
    ELSE IF GoesBefore(x, Head(sorted)) THEN <<x>> \o sorted
    ELSE <<Head(sorted)>> \o InsertSorted(x, Tail(sorted))

\* normalized.sort(key=lambda fill: fill.timestamp): each element in input
\* order is inserted behind the elements already placed that are not greater.
RECURSIVE SortByTimestamp(_)
SortByTimestamp(seq) ==
    IF seq = <<>> THEN <<>>
    ELSE InsertSorted(seq[Len(seq)], SortByTimestamp(SubSeq(seq, 1, Len(seq) - 1)))

(***************************************************************************)
(* The replay shared by aggregate_trade_history and                        *)
(* reconstruct_position_history.                                           *)
(***************************************************************************)
Wallet == "0xwallet"
AllSymbols == {"BTC", "ETH"}

\* states: dict[str, _PositionState]; setdefault gives a fresh state to a
\* symbol on its first fill.
States0 == [sym \in AllSymbols |-> PositionState0]

\* A variant with one state for all the symbols.
StateOfAny(states, symbol) == states["BTC"]

\* states.setdefault(fill.symbol, _PositionState())
StateOf(states, symbol) == states[symbol]

\* A variant that adds the fee.
AfterFeeAdded(realized, fee) == RAdd(realized, R(fee))

\* realized -= fill.fee
AfterFee(realized, fee) == RSub(realized, R(fee))

\* A variant that also counts a trade that breaks even.
IsHitNonNegative(realized) == ~RPos(RSub(Zero, realized))

\* if realized > 0: realized_hits += 1
IsHit(realized) == RPos(realized)

\* A variant that forgets the running total.
AccumulateLast(cumulative, realized) == realized

\* cumulative_pnl += realized
Accumulate(cumulative, realized) == RAdd(cumulative, realized)

\* The loop of aggregate_trade_history over normalized[i..].
RECURSIVE AggregateLoop(_, _, _, _, _, _)
AggregateLoop(normalized, i, states, cumulative_pnl, realized_hits, trades) ==
    IF i > Len(normalized)
    THEN [trades |-> trades, realized_hits |-> realized_hits]
    ELSE LET fill     == normalized[i]
             r        == apply_fill(StateOf(states, fill.symbol), fill.side,
                                    fill.size, fill.price)
             realized == AfterFee(r.realized, fill.fee)
             cum      == Accumulate(cumulative_pnl, realized)
             trade    == [wallet |-> Wallet, trade_id |-> fill.trade_id,
                          symbol |-> fill.symbol, side |-> fill.side,
                          size |-> fill.size, price |-> fill.price,
                          fee |-> fill.fee, timestamp |-> fill.timestamp,
                          entry_price |-> r.entry_price,
                          exit_price |-> r.exit_price,
                          realized_pnl |-> realized, cumulative_pnl |-> cum]
         IN  AggregateLoop(normalized, i + 1,
                 [states EXCEPT ![fill.symbol] =
                     [signed_size |-> r.signed_size, average_entry |-> r.average_entry]],
                 cum,
                 IF IsHit(realized) THEN realized_hits + 1 ELSE realized_hits,
                 Append(trades, trade))

RECURSIVE SumRealized(_)
SumRealized(trades) ==
    IF trades = <<>> THEN Zero
    ELSE RAdd(Head(trades).realized_pnl, SumRealized(Tail(trades)))

RECURSIVE SumFees(_)
SumFees(trades) ==
    IF trades = <<>> THEN 0 ELSE Head(trades).fee + SumFees(Tail(trades))

\* trades[-1].timestamp if trades else utcnow()
LatestTradeTime(trades) ==
    IF trades # <<>> THEN [t |-> "at", v |-> trades[Len(trades)].timestamp]
    ELSE [t |-> "utcnow"]

\* (realized_hits / trade_count) if trade_count else 0.0
WinRate(realized_hits, trade_count) ==
    IF trade_count # 0 THEN Rat(realized_hits, trade_count) ELSE Zero

Performance0 ==
    [wallet |-> Wallet, trade_count |-> 0, total_realized_pnl |-> Zero,
     cumulative_fees |-> 0, win_rate |-> Zero,
     latest_trade_time |-> [t |-> "utcnow"]]

\* aggregate_trade_history(wallet, fills) -> (trades, performance)
aggregate_trade_history(wallet, fills) ==
    LET normalized == SortByTimestamp(NormalizeAll(wallet, fills))
        out        == AggregateLoop(normalized, 1, States0, Zero, 0, <<>>)
        trade_count == Len(out.trades)
    IN  [trades |-> out.trades,
         performance |->
            [wallet |-> wallet, trade_count |-> trade_count,
             total_realized_pnl |-> SumRealized(out.trades),
             cumulative_fees |-> SumFees(out.trades),
             win_rate |-> WinRate(out.realized_hits, trade_count),
             latest_trade_time |-> LatestTradeTime(out.trades)]]

\* A variant that reports an empty position as long.
PositionSideNoFlat(signed_size) ==
    IF signed_size >= 0 THEN "long" ELSE "short"

\* long / short / flat from the sign of signed_size.
PositionSide(signed_size) ==
    IF signed_size > 0 THEN "long"
    ELSE IF signed_size < 0 THEN "short" ELSE "flat"

\* The loop of reconstruct_position_history over normalized[i..].
RECURSIVE ReconstructLoop(_, _, _, _, _, _)
ReconstructLoop(normalized, i, states, cumulative_realized_pnl, cumulative_fees, rows) ==
    IF i > Len(normalized) THEN rows
    ELSE LET fill == normalized[i]
             r    == apply_fill(StateOf(states, fill.symbol), fill.side,
                                fill.size, fill.price)
             realized_after_fee == AfterFee(r.realized, fill.fee)
             cum  == Accumulate(cumulative_realized_pnl, realized_after_fee)
             fees == cumulative_fees + fill.fee
             row  == [wallet |-> Wallet, timestamp |-> fill.timestamp,
                      trade_id |-> fill.trade_id, symbol |-> fill.symbol,
                      fill_side |-> fill.side, fill_size |-> fill.size,
                      fill_price |-> fill.price, fee |-> fill.fee,
                      position_side |-> PositionSide(r.signed_size),
                      position_size |-> Abs(r.signed_size),
                      avg_entry_price |-> r.average_entry,
                      realized_pnl |-> realized_after_fee,
                      cumulative_realized_pnl |-> cum,
                      cumulative_fees |-> fees]
         IN  ReconstructLoop(normalized, i + 1,
                 [states EXCEPT ![fill.symbol] =
                     [signed_size |-> r.signed_size, average_entry |-> r.average_entry]],
                 cum, fees, Append(rows, row))

\* reconstruct_position_history(wallet, fills) -> rows
reconstruct_position_history(wallet, fills) ==
    ReconstructLoop(SortByTimestamp(NormalizeAll(wallet, fills)), 1, States0, Zero, 0, <<>>)

(***************************************************************************)
(* State.                                                                  *)
(*   state, call, nfills: one _PositionState object, the arguments and     *)
(*     results of the last apply_fill on it, and the number of calls.      *)
(*   fills: the raw fill list handed to the aggregator / reconstructor.    *)
(*   trades, performance: what aggregate_trade_history returned.           *)
(*   rows: what reconstruct_position_history returned.                     *)
(*   done: which of the two functions have returned.                       *)
(***************************************************************************)
VARIABLES state, call, nfills, fills, trades, performance, rows, done

(***************************************************************************)
(* State of the report scripts.                                            *)
(*   closes, signal, cost: the arguments of run_backtest.                  *)
(*   bt: the outcome of the last run_backtest call, with its local lists.  *)
(*   position, strat_rets: the arguments of trade_stats.                   *)
(*   stats: what the last trade_stats call returned.                       *)
(*   times, wallet_flow, train_end_idx: the hourly bars, the net flow of   *)
(*     each wallet per bar and the end of the training window.             *)
(*   train_sharpe: the sharpe of the training backtest, by its arguments.  *)
(*   stat: what the last evaluate_wallet call returned.                    *)
(*   selected: what select_wallets returned.                               *)
(*   wallet_stats, threshold: the arguments of build_combined_signal.      *)
(*   combined: what build_combined_signal returned.                        *)
(***************************************************************************)
VARIABLES closes, signal, cost, bt, position, strat_rets, stats,
          times, wallet_flow, train_end_idx, train_sharpe, stat, selected,
          wallet_stats, threshold, combined

(***************************************************************************)
(* State of one collect_1h_history call of the Binance exporter.           *)
(*   cursor, end_ms, request_limit: the local and the arguments.           *)
(*   klines: the local rows, the first field of every row fetched so far.  *)
(*   collect_pc: "loop" at the head of the while loop, "dedup" after it,   *)
(*     "returned" or "raised" when the call is over.                       *)
(*   candles: the rows returned, each with its open time and its place in  *)
(*     klines.                                                             *)
(***************************************************************************)
VARIABLES cursor, end_ms, request_limit, klines, collect_pc, candles

(***************************************************************************)
(* State of the intelligence engine.                                       *)
(*   streams: the payload lists handed to ingest_all, by source type.      *)
(*   normalized: the events the ingestors produced, before deduplication.  *)
(*   events: what ingest_all returned.                                     *)
(*   engaged, dismissed: the counters of one PersonalizationModel.         *)
(*   weight: the category and the result of the last weight_for call, if   *)
(*     no feedback has been recorded since.                                *)
(***************************************************************************)
VARIABLES streams, normalized, events, engaged, dismissed, weight

trackerVars == <<state, call, nfills>>
historyVars == <<fills, trades, performance, rows, done>>
backtestVars == <<closes, signal, cost, bt>>
scanVars == <<position, strat_rets, stats>>
walletVars == <<times, wallet_flow, train_end_idx, train_sharpe, stat, selected>>
consensusVars == <<wallet_stats, threshold, combined>>
exportVars == <<cursor, end_ms, request_limit, klines, collect_pc, candles>>
reportVars == <<backtestVars, scanVars, walletVars, consensusVars, exportVars>>
engineVars == <<streams, normalized, events>>
personalizationVars == <<engaged, dismissed, weight>>
agentVars == <<engineVars, personalizationVars>>
vars == <<trackerVars, historyVars, reportVars, agentVars>>

\* The categories feedback is recorded for: two of the source types.
Categories == {"news", "social"}

NoBacktest == [script |-> "none", outcome |-> "none"]
NoStats == [script |-> "none"]
NoStat == [wallet |-> "none", returned |-> "nothing"]
NoWeight == [category |-> "none"]

\* The report scripts have been given nothing.
BacktestIdle ==
    closes = <<>> /\ signal = <<>> /\ cost = <<0, 1>> /\ bt = NoBacktest
ScanIdle == position = <<>> /\ strat_rets = <<>> /\ stats = NoStats
WalletIdle ==
    /\ times = <<>> /\ wallet_flow = <<>> /\ train_end_idx = 0
    /\ train_sharpe = <<>> /\ stat = NoStat /\ selected = <<>>
ConsensusIdle == wallet_stats = <<>> /\ threshold = <<0, 1>> /\ combined = <<>>
\* No collect_1h_history call has been made.
ExportIdle ==
    /\ cursor = 0 /\ end_ms = 0 /\ request_limit = 0
    /\ klines = <<>> /\ collect_pc = "idle" /\ candles = <<>>
ReportIdle == BacktestIdle /\ ScanIdle /\ WalletIdle /\ ConsensusIdle /\ ExportIdle

\* A fresh engine: nothing ingested, no feedback recorded.
EngineIdle == streams = <<>> /\ normalized = <<>> /\ events = <<>>
PersonalizationIdle ==
    /\ engaged = [c \in Categories |-> 0]
    /\ dismissed = [c \in Categories |-> 0]
    /\ weight = NoWeight
AgentIdle == EngineIdle /\ PersonalizationIdle

NoCall ==
    [side |-> "none", size |-> 0, price |-> 0,
     previous_size |-> 0, previous_entry |-> Zero,
     realized |-> Zero, entry_price |-> Zero, exit_price |-> Zero]

Sides == {"buy", "sell"}

\* No fill has been applied, no fill list has been replayed.
TrackerIdle == state = PositionState0 /\ call = NoCall /\ nfills = 0
HistoryIdle ==
    /\ fills = <<>> /\ trades = <<>> /\ performance = Performance0
    /\ rows = <<>> /\ done = {}

(***************************************************************************)
(* The tracker specification: any sequence of fills (size > 0, price > 0)  *)
(* applied to one fresh _PositionState.                                    *)
(***************************************************************************)
Init ==
    /\ state = PositionState0
    /\ call = NoCall
    /\ nfills = 0
    /\ fills = <<>>
    /\ trades = <<>>
    /\ performance = Performance0
    /\ rows = <<>>
    /\ done = {}
    /\ ReportIdle
    /\ AgentIdle

\* state.apply_fill(side, size, price)
ApplyFill(side, size, price) ==
    /\ nfills < MaxSteps
    /\ LET r == apply_fill(state, side, size, price)
       IN  /\ state' = [signed_size |-> r.signed_size,
                        average_entry |-> r.average_entry]
           /\ call' = [side |-> side, size |-> size, price |-> price,
                       previous_size |-> state.signed_size,
                       previous_entry |-> state.average_entry,
                       realized |-> r.realized,
                       entry_price |-> r.entry_price,
                       exit_price |-> r.exit_price]
    /\ nfills' = nfills + 1
    /\ UNCHANGED <<historyVars, reportVars, agentVars>>

Next ==
    \E side \in Sides, size \in 1..MaxSize, price \in 1..MaxPrice :
        ApplyFill(side, size, price)

Spec == Init /\ [][Next]_vars

(***************************************************************************)
(* The history specification: aggregate_trade_history and                  *)
(* reconstruct_position_history applied to a raw fill list.                *)
(***************************************************************************)
MkFill(coin, side, sz, px, fee, time) ==
    [coin |-> Str(coin), side |-> Str(side), sz |-> Num(sz), px |-> Num(px),
     fee |-> Num(fee), time |-> time]

\* Well-formed BTC fills without a fee.
PlainFills ==
    {MkFill("BTC", side, sz, px, 0, Num(time)) :
        side \in Sides, sz \in {1, 2}, px \in {1, 2}, time \in {1, 2}}

\* Well-formed BTC fills that carry a fee.
FeeFills ==
    {MkFill("BTC", side, sz, 2, 1, Num(2)) : side \in Sides, sz \in {1, 2}}

\* Fills that use the alternative keys and encodings.
VariantFills ==
    { [symbol |-> Str("eth"), side |-> Str("Buy"), size |-> Num(1),
       price |-> Num(2), timestamp |-> Iso(1)],
      [asset |-> Str("ETH"), dir |-> Str("Open Short"), sizeDelta |-> Num(1),
       avgPx |-> Num(1), feePaid |-> Num(1), ts |-> MsNum(2000)],
      [coin |-> Str("BTC"), sz |-> Num(-1), px |-> Num(2), fee |-> Num(-1),
       time |-> Num(1)] }

\* Records the normalizer must drop: no symbol, size zero, price missing,
\* price negative.
MalformedFills ==
    { [side |-> Str("buy"), sz |-> Num(1), px |-> Num(1), time |-> Num(1)],
      MkFill("BTC", "buy", 0, 1, 0, Num(1)),
      [coin |-> Str("BTC"), side |-> Str("buy"), sz |-> Num(1), time |-> Num(2)],
      MkFill("BTC", "sell", 2, -1, 1, Num(1)) }

\* Records whose time is absent or does not parse.
UntimedFills ==
    { [coin |-> Str("BTC"), side |-> Str("buy"), sz |-> Num(1), px |-> Num(2)],
      MkFill("BTC", "sell", 1, 1, 1, Str("soon")) }

RawFills ==
    PlainFills \cup FeeFills \cup VariantFills \cup MalformedFills \cup UntimedFills

\* fill with the key "tid" set to i.
WithTid(fill, i) ==
    [k \in DOMAIN fill \cup {"tid"} |-> IF k = "tid" THEN Num(i) ELSE fill[k]]

\* The lists of at most max raw fills; the i-th fill carries tid i.
FillLists(max) ==
    { [i \in 1..Len(f) |-> WithTid(f[i], i)] :
        f \in UNION { [1..n -> RawFills] : n \in 0..max } }

InitHistory ==
    /\ state = PositionState0
    /\ call = NoCall
    /\ nfills = 0
    /\ fills \in FillLists(MaxFills)
    /\ trades = <<>>
    /\ performance = Performance0
    /\ rows = <<>>
    /\ done = {}
    /\ ReportIdle
    /\ AgentIdle

\* trades, performance = aggregate_trade_history(wallet, fills)
Aggregate ==
    /\ "aggregate" \notin done
    /\ LET out == aggregate_trade_history(Wallet, fills)
       IN  /\ trades' = out.trades
           /\ performance' = out.performance
    /\ done' = done \cup {"aggregate"}
    /\ UNCHANGED <<fills, rows>>
    /\ UNCHANGED <<trackerVars, reportVars, agentVars>>

\* rows = reconstruct_position_history(wallet, fills)
Reconstruct ==
    /\ "reconstruct" \notin done
    /\ rows' = reconstruct_position_history(Wallet, fills)
    /\ done' = done \cup {"reconstruct"}
    /\ UNCHANGED <<fills, trades, performance>>
    /\ UNCHANGED <<trackerVars, reportVars, agentVars>>

NextHistory == Aggregate \/ Reconstruct

SpecHistory == InitHistory /\ [][NextHistory]_vars

(***************************************************************************)
(* The backtest of the report scripts (generate_smart_wallet_strategy_     *)
(* report.py and generate_trading_strategies_report.py).  The Python lists *)
(* are indexed from 0, the sequences here from 1: bar i of the source is   *)
(* element i + 1.                                                          *)
(***************************************************************************)
RDiv(a, b) == Rat(a[1] * b[2], a[2] * b[1])
RLt(a, b) == RPos(RSub(b, a))
RMin(a, b) == IF RLt(b, a) THEN b ELSE a
RMax(a, b) == IF RLt(a, b) THEN b ELSE a

HOURS_PER_YEAR == 24 * 365

\* rets[0] = 0.0; rets[i] = closes[i] / closes[i - 1] - 1.0
returns_from_close(closes_) ==
    [i \in 1..Len(closes_) |->
        IF i = 1 THEN Zero ELSE RSub(Rat(closes_[i], closes_[i - 1]), R(1))]

\* A variant that holds the last signal on every bar.
HeldPositionLast(signal_, i) == signal_[Len(signal_)]

\* A variant without the one-bar delay.
HeldPositionNoDelay(signal_, i) == signal_[i]

\* position[i] = signal[i - 1]
HeldPosition(signal_, i) == signal_[i - 1]

\* position = [0] * n, then the loop's assignment for i >= 1.
Positions(signal_, n) ==
    [i \in 1..n |-> IF i = 1 THEN 0 ELSE HeldPosition(signal_, i)]

\* strat_rets[i] = position[i] * rets[i] - turnover * cost
StratRets(position_, rets, cost_) ==
    [i \in 1..Len(position_) |->
        IF i = 1 THEN Zero
        ELSE RSub(RMul(R(position_[i]), rets[i]),
                  RMul(R(Abs(position_[i] - position_[i - 1])), cost_))]

\* equity[-1] * (1.0 + r)
Compound(e, r) == RMul(e, RAdd(R(1), r))

\* equity = [1.0]; for r in strat_rets[1:]: equity.append(...)
RECURSIVE EquityCurve(_, _)
EquityCurve(strat_rets_, k) ==
    IF k <= 1 THEN <<R(1)>>
    ELSE LET e == EquityCurve(strat_rets_, k - 1)
         IN  Append(e, Compound(e[Len(e)], strat_rets_[k]))

\* sum(strat_rets[1:])
RECURSIVE SumTail(_, _)
SumTail(seq, k) ==
    IF k <= 1 THEN Zero ELSE RAdd(SumTail(seq, k - 1), seq[k])

\* sum((r - mean_ret) ** 2 for r in strat_rets[1:])
RECURSIVE SumSquares(_, _, _)
SumSquares(seq, mean_ret, k) ==
    IF k <= 1 THEN Zero
    ELSE LET dev == RSub(seq[k], mean_ret)
         IN  RAdd(SumSquares(seq, mean_ret, k - 1), RMul(dev, dev))

\* The least |x|, in ten-thousandths rounded up, at which
\* x ** (HOURS_PER_YEAR / periods) reaches 2 ** 1024 and leaves the range of
\* a float: 2 ** (1024 * periods / HOURS_PER_YEAR), for periods = 1..12.
OverflowBase ==
    <<10844, 11760, 12752, 13828, 14995, 16261,
      17633, 19122, 20735, 22485, 24383, 26441>>

\* equity[-1] ** (1.0 / years) raises OverflowError.
PowerOverflows(last_equity, periods) ==
    ~RLt(<<Abs(last_equity[1]), last_equity[2]>>,
         Rat(OverflowBase[periods], 10000))

\* equity[-1] ** (1.0 / years) - 1.0 if years > 0 else 0.0, kept as the
\* base and the exponent of the power (years = periods / HOURS_PER_YEAR),
\* or the OverflowError the power raises.
Cagr(last_equity, periods) ==
    IF periods > 0
    THEN IF PowerOverflows(last_equity, periods)
         THEN [t |-> "OverflowError"]
         ELSE [t |-> "power_minus_one", base |-> last_equity,
               exponent |-> Rat(HOURS_PER_YEAR, periods)]
    ELSE [t |-> "zero"]

\* (mean_ret / std_ret) * sqrt(HOURS_PER_YEAR) if std_ret > 0 else 0.0,
\* kept as mean_ret and the variance std_ret ** 2.
Sharpe(mean_ret, variance) ==
    IF RPos(variance)
    THEN [t |-> "mean_over_std", mean_ret |-> mean_ret, variance |-> variance]
    ELSE [t |-> "zero"]

\* The drawdown loop over equity[1..k]: the running peak and max_dd.
RECURSIVE Drawdown(_, _)
Drawdown(equity, k) ==
    IF k = 0 THEN [peak |-> equity[1], max_dd |-> Zero]
    ELSE LET before == Drawdown(equity, k - 1)
             peak   == RMax(before.peak, equity[k])
         IN  [peak |-> peak,
              max_dd |-> RMin(before.max_dd, RSub(RDiv(equity[k], peak), R(1)))]

\* A variant that counts only a change of sign as a new trade.
ChangesSign(position_, i) == position_[i] * position_[i - 1] < 0

\* position[i] != 0 and position[i] != position[i - 1]
ChangesWhileOpen(position_, i) ==
    position_[i] # 0 /\ position_[i] # position_[i - 1]

ScanState0 == [trades |-> 0, wins |-> 0, in_trade |-> FALSE, current_pnl |-> Zero]

\* One iteration of the loop of trade_stats, at element i >= 2.  The
\* trading-strategies script also sets in_trade on a change while open
\* (sets_in_trade); the smart-wallet script does not.
ScanStep(position_, strat_rets_, i, st, sets_in_trade) ==
    IF position_[i] # 0 /\ position_[i - 1] = 0
    THEN [st EXCEPT !.trades = @ + 1, !.in_trade = TRUE,
                    !.current_pnl = strat_rets_[i]]
    ELSE IF ChangesWhileOpen(position_, i)
    THEN [st EXCEPT !.wins = IF st.in_trade /\ RPos(st.current_pnl)
                              THEN @ + 1 ELSE @,
                    !.trades = @ + 1,
                    !.in_trade = IF sets_in_trade THEN TRUE ELSE @,
                    !.current_pnl = strat_rets_[i]]
    ELSE IF position_[i] # 0 /\ st.in_trade
    THEN [st EXCEPT !.current_pnl = RAdd(@, strat_rets_[i])]
    ELSE IF position_[i] = 0 /\ position_[i - 1] # 0 /\ st.in_trade
    THEN [st EXCEPT !.wins = IF RPos(RAdd(st.current_pnl, strat_rets_[i]))
                              THEN @ + 1 ELSE @,
                    !.in_trade = FALSE,
                    !.current_pnl = Zero]
    ELSE st

\* for i in range(1, len(position)): ...
RECURSIVE ScanLoop(_, _, _, _)
ScanLoop(position_, strat_rets_, k, sets_in_trade) ==
    IF k <= 1 THEN ScanState0
    ELSE ScanStep(position_, strat_rets_, k,
                  ScanLoop(position_, strat_rets_, k - 1, sets_in_trade),
                  sets_in_trade)

\* A variant that leaves a trade still open at the end unscored.
ScanResultNoOpen(st) ==
    [trades |-> st.trades, wins |-> st.wins,
     win_rate |-> IF st.trades > 0 THEN Rat(st.wins, st.trades) ELSE Zero]

\* The end of trade_stats: a trade still open is scored, and
\* (trades, wins / trades if trades > 0 else 0.0) is returned.
ScanResult(st) ==
    LET wins == IF st.in_trade /\ RPos(st.current_pnl) THEN st.wins + 1 ELSE st.wins
    IN  [trades |-> st.trades, wins |-> wins,
         win_rate |-> IF st.trades > 0 THEN Rat(wins, st.trades) ELSE Zero]

\* trade_stats of generate_smart_wallet_strategy_report.py
trade_stats_smart_wallet(position_, strat_rets_) ==
    ScanResult(ScanLoop(position_, strat_rets_, Len(position_), FALSE))

\* A variant that stops the scan one bar early.
trade_stats_one_short(position_, strat_rets_) ==
    ScanResult(ScanLoop(position_, strat_rets_, Len(position_) - 1, TRUE))

\* trade_stats of generate_trading_strategies_report.py
trade_stats_strategies(position_, strat_rets_) ==
    ScanResult(ScanLoop(position_, strat_rets_, Len(position_), TRUE))

trade_stats(script, position_, strat_rets_) ==
    IF script = "smart_wallet"
    THEN trade_stats_smart_wallet(position_, strat_rets_)
    ELSE trade_stats_strategies(position_, strat_rets_)

Scripts == {"smart_wallet", "strategies"}

\* sum(abs(p) for p in position)
RECURSIVE SumInts(_, _)
SumInts(seq, k) == IF k = 0 THEN 0 ELSE SumInts(seq, k - 1) + seq[k]

\* run_backtest(closes, signal, cost) of either script.  The outcome is
\* "ok" with the result fields and the local lists position and
\* strat_rets, or the exception the call ends with: the length check
\* (ValueError in the smart-wallet script, a failed assert in the other),
\* the OverflowError of the annualised growth, or the division by
\* len(position) = 0 in the exposure of an empty series.
run_backtest(script, closes_, signal_, cost_) ==
    IF Len(closes_) # Len(signal_)
    THEN [script |-> script,
          outcome |-> IF script = "smart_wallet" THEN "ValueError"
                      ELSE "AssertionError"]
    ELSE LET rets        == returns_from_close(closes_)
             n           == Len(closes_)
             position_   == Positions(signal_, n)
             strat_rets_ == StratRets(position_, rets, cost_)
             equity      == EquityCurve(strat_rets_, n)
             periods     == IF n - 1 > 1 THEN n - 1 ELSE 1
             last_equity == equity[Len(equity)]
             mean_ret    == RDivInt(SumTail(strat_rets_, n), periods)
             variance    == RDivInt(SumSquares(strat_rets_, mean_ret, n), periods)
             scan        == trade_stats(script, position_, strat_rets_)
             held        == [i \in 1..n |-> Abs(position_[i])]
             cagr        == Cagr(last_equity, periods)
         IN  IF cagr.t = "OverflowError"
             THEN [script |-> script, outcome |-> "OverflowError"]
             ELSE IF n = 0
             THEN [script |-> script, outcome |-> "ZeroDivisionError"]
             ELSE [script |-> script, outcome |-> "ok",
                   position |-> position_, strat_rets |-> strat_rets_,
                   total_return |-> RSub(last_equity, R(1)),
                   cagr |-> cagr,
                   sharpe |-> Sharpe(mean_ret, variance),
                   max_drawdown |-> Drawdown(equity, Len(equity)).max_dd,
                   trades |-> scan.trades, win_rate |-> scan.win_rate,
                   exposure |-> Rat(SumInts(held, n), n)]

(***************************************************************************)
(* The backtest specification: run_backtest of either script applied to a  *)
(* price series, a signal series of the same length or one longer, and a   *)
(* cost per unit of turnover.                                              *)
(***************************************************************************)
ClosePrices == {1, 2, 3}
SignalValues == {-1, 0, 1}
Costs == {Zero, Rat(1, 2)}

SeqsUpTo(S, max) == UNION { [1..n -> S] : n \in 0..max }

InitBacktest ==
    /\ closes \in SeqsUpTo(ClosePrices, MaxBars)
    /\ signal \in SeqsUpTo(SignalValues, MaxBars)
    /\ Len(signal) \in {Len(closes), Len(closes) + 1}
    /\ cost \in Costs
    /\ bt = NoBacktest
    /\ TrackerIdle /\ HistoryIdle
    /\ ScanIdle /\ WalletIdle /\ ConsensusIdle
    /\ AgentIdle /\ ExportIdle

\* bt = run_backtest(closes, signal, cost)
RunBacktest(script) ==
    /\ bt' = run_backtest(script, closes, signal, cost)
    /\ UNCHANGED <<closes, signal, cost>>
    /\ UNCHANGED <<trackerVars, historyVars, scanVars, walletVars, consensusVars,
                   agentVars, exportVars>>

NextBacktest == \E script \in Scripts : RunBacktest(script)

SpecBacktest == InitBacktest /\ [][NextBacktest]_vars

(***************************************************************************)
(* The trade scan specification: trade_stats of either script applied to   *)
(* any position series and strategy-return series of one length.           *)
(***************************************************************************)
PositionValues == {-1, 0, 1, 2}
ReturnValues == {R(-1), Zero, R(1)}

InitTradeStats ==
    /\ \E n \in 0..MaxScan :
          /\ position \in [1..n -> PositionValues]
          /\ strat_rets \in [1..n -> ReturnValues]
    /\ stats = NoStats
    /\ TrackerIdle /\ HistoryIdle
    /\ BacktestIdle /\ WalletIdle /\ ConsensusIdle
    /\ AgentIdle /\ ExportIdle

\* stats = trade_stats(position, strat_rets)
TradeStats(script) ==
    /\ stats' = [script |-> script] @@ trade_stats(script, position, strat_rets)
    /\ UNCHANGED <<position, strat_rets>>
    /\ UNCHANGED <<trackerVars, historyVars, backtestVars, walletVars,
                   consensusVars, agentVars, exportVars>>

NextTradeStats == \E script \in Scripts : TradeStats(script)

SpecTradeStats == InitTradeStats /\ [][NextTradeStats]_vars

(***************************************************************************)
(* Wallet scoring and selection (generate_smart_wallet_strategy_report.py). *)
(* Bar i of the source is element i + 1 here, so the training window       *)
(* [0, train_end_idx) is the elements 1..train_end_idx.                    *)
(*                                                                         *)
(* The backtest of the training window runs at COST_PER_TURNOVER = 0.0005  *)
(* over eight bars or more; its exact sharpe and total_return do not fit   *)
(* the integers of the checker, so a WalletStat carries the arguments of   *)
(* that backtest (train_bt) in their place: equal arguments give equal     *)
(* values.  Its sharpe is read from train_sharpe, which gives every        *)
(* training backtest one of SharpeValues, any value being possible: only   *)
(* the order of two sharpes is used.  The weight edge * sqrt(active_hours) *)
(* is carried as the pair of its factors.                                  *)
(***************************************************************************)
MIN_ACTIVE_HOURS == 8
TOP_WALLETS == 8

\* wallet_flow_signal(flow): the sign of the net flow.
wallet_flow_signal(flow) ==
    IF flow > 0 THEN 1 ELSE IF flow < 0 THEN -1 ELSE 0

\* [wallet_flow_signal(flow_by_hour.get(ts, 0.0)) for ts in times]; an hour
\* without a flow is an hour of flow 0.
WalletSignal(flow_by_hour, times_) ==
    [i \in 1..Len(times_) |-> wallet_flow_signal(flow_by_hour[times_[i]])]

\* seq[:k] for 0 <= k
Prefix(seq, k) == SubSeq(seq, 1, IF k < Len(seq) THEN k ELSE Len(seq))

\* A variant that counts the active bars of the whole series.
ActiveHoursAllBars(wallet_signal, train_end_idx_) ==
    Cardinality({i \in DOMAIN wallet_signal : wallet_signal[i] # 0})

\* sum(1 for s in wallet_signal[:train_end_idx] if s != 0)
ActiveHours(wallet_signal, train_end_idx_) ==
    Cardinality({i \in DOMAIN Prefix(wallet_signal, train_end_idx_) :
                    wallet_signal[i] # 0})

\* A variant that counts every active bar of the training window.
HitTotalAllActive(wallet_signal, train_end_idx_) ==
    Cardinality({i \in 1..train_end_idx_ : wallet_signal[i] # 0})

\* The loop over range(1, train_end_idx): total counts the bars whose
\* previous signal is non-zero, correct those where it agrees in sign with
\* the bar's return.
HitTotal(wallet_signal, train_end_idx_) ==
    Cardinality({i \in 2..train_end_idx_ : wallet_signal[i - 1] # 0})

\* A variant that scores the bars behind the training window too.
HitCorrectAllBars(wallet_signal, rets, train_end_idx_) ==
    Cardinality({i \in 2..Len(rets) :
                    /\ wallet_signal[i - 1] # 0
                    /\ RPos(RMul(R(wallet_signal[i - 1]), rets[i]))})

HitCorrect(wallet_signal, rets, train_end_idx_) ==
    Cardinality({i \in 2..train_end_idx_ :
                    /\ wallet_signal[i - 1] # 0
                    /\ RPos(RMul(R(wallet_signal[i - 1]), rets[i]))})

\* hit_rate = correct / total if total > 0 else 0.0
HitRate(correct, total) == IF total > 0 THEN Rat(correct, total) ELSE Zero

\* edge = max(hit_rate - 0.5, 0.0)
Edge(hit_rate) == RMax(RSub(hit_rate, Rat(1, 2)), Zero)

\* The arguments of run_backtest(closes[:train_end_idx],
\* wallet_signal[:train_end_idx]).
TrainArgs(wallet_signal, closes_, train_end_idx_) ==
    [closes |-> Prefix(closes_, train_end_idx_),
     signal |-> Prefix(wallet_signal, train_end_idx_)]

\* evaluate_wallet(wallet, flow_by_hour, times, closes, train_end_idx)
evaluate_wallet(wallet, flow_by_hour, times_, closes_, train_end_idx_) ==
    LET wallet_signal == WalletSignal(flow_by_hour, times_)
        active_hours  == ActiveHours(wallet_signal, train_end_idx_)
        rets          == returns_from_close(closes_)
        hit_rate      == HitRate(HitCorrect(wallet_signal, rets, train_end_idx_),
                                 HitTotal(wallet_signal, train_end_idx_))
    IN  IF active_hours < MIN_ACTIVE_HOURS
        THEN [wallet |-> wallet, returned |-> "None"]
        ELSE [wallet |-> wallet, returned |-> "WalletStat",
              active_hours |-> active_hours,
              hit_rate |-> hit_rate,
              train_bt |-> TrainArgs(wallet_signal, closes_, train_end_idx_),
              sharpe |-> train_sharpe[TrainArgs(wallet_signal, closes_,
                                                train_end_idx_)],
              weight |-> [edge |-> Edge(hit_rate), active_hours |-> active_hours]]

\* weight > 0, for weight = edge * sqrt(active_hours)
WeightPositive(w) == RPos(w.edge) /\ w.active_hours > 0

\* a < b for two weights: the squares compare as the weights do.
WeightLess(a, b) ==
    RLt(RMul(RMul(a.edge, a.edge), R(a.active_hours)),
        RMul(RMul(b.edge, b.edge), R(b.active_hours)))

\* The wallets a flow file can hold, in the order the dict holds them.
WalletOrder ==
    <<"0xaaa", "0xbbb", "0xccc", "0xddd", "0xeee",
      "0xfff", "0xggg", "0xhhh", "0xiii", "0xjjj">>

\* The first n of them.
Wallets(n) == {WalletOrder[k] : k \in 1..n}

\* The loop of select_wallets: the stats of the wallets evaluate_wallet
\* returns a WalletStat for, in dict order.
RECURSIVE EvaluateAll(_, _, _, _, _)
EvaluateAll(wallet_flow_, times_, closes_, train_end_idx_, k) ==
    IF k = 0 THEN <<>>
    ELSE LET before == EvaluateAll(wallet_flow_, times_, closes_, train_end_idx_, k - 1)
             wallet == WalletOrder[k]
             s      == evaluate_wallet(wallet, wallet_flow_[wallet], times_,
                                       closes_, train_end_idx_)
         IN  IF wallet \in DOMAIN wallet_flow_ /\ s.returned = "WalletStat"
             THEN Append(before, s) ELSE before

\* (a.weight, a.sharpe) < (b.weight, b.sharpe), as tuples compare.
KeyLess(a, b) ==
    \/ WeightLess(a.weight, b.weight)
    \/ /\ ~WeightLess(b.weight, a.weight)
       /\ a.sharpe < b.sharpe

\* stats.sort(key=lambda x: (x.weight, x.sharpe), reverse=True) on the
\* first k stats: the sort is stable, so a stat goes behind every stat
\* before it whose key is not less.
RECURSIVE SortDescending(_, _)
SortDescending(stats_, k) ==
    IF k = 0 THEN <<>>
    ELSE LET before == SortDescending(stats_, k - 1)
             ahead  == Cardinality({j \in DOMAIN before :
                                       ~KeyLess(before[j], stats_[k])})
         IN  SubSeq(before, 1, ahead) \o <<stats_[k]>>
                 \o SubSeq(before, ahead + 1, Len(before))

\* A variant that keeps every stat of positive weight.
TopPositiveUncut(sorted) ==
    SelectSeq(sorted, LAMBDA s : WeightPositive(s.weight))

\* [s for s in stats if s.weight > 0][:TOP_WALLETS]
TopPositive(sorted) ==
    LET positive == SelectSeq(sorted, LAMBDA s : WeightPositive(s.weight))
    IN  SubSeq(positive, 1, IF Len(positive) < TOP_WALLETS THEN Len(positive)
                            ELSE TOP_WALLETS)

\* select_wallets(wallet_flow, times, closes, train_end_idx)
select_wallets(wallet_flow_, times_, closes_, train_end_idx_) ==
    LET stats_ == EvaluateAll(wallet_flow_, times_, closes_, train_end_idx_,
                              Len(WalletOrder))
    IN  TopPositive(SortDescending(stats_, Len(stats_)))

(***************************************************************************)
(* The wallet specification: evaluate_wallet and select_wallets applied to *)
(* MaxHours hourly bars, a price series and the flows of two wallets.      *)
(* A wallet is active on a run of consecutive hours, long, short or        *)
(* alternating, or on none.                                                *)
(***************************************************************************)
Hours(n) == [i \in 1..n |-> i]

\* Rising, falling and alternating prices around 100.  A bar moves the
\* price by one per cent at most, so the equity of the training window stays
\* below OverflowBase and its run_backtest returns.
CloseSeries(n) ==
    { [i \in 1..n |-> 100 + i], [i \in 1..n |-> 100 + n + 1 - i],
      [i \in 1..n |-> 100 + (i % 2)] }

FlowSizes == {3, -3}

\* The flow of a wallet active from hour first to hour last.
RunOfFlows(n, first, last, size, alternating) ==
    [i \in 1..n |->
        IF i < first \/ i > last THEN 0
        ELSE IF alternating /\ (i - first) % 2 = 1 THEN -size ELSE size]

FlowsByHour(n) ==
    { RunOfFlows(n, first, last, size, alternating) :
        first \in {1, 2}, last \in {0} \cup ((MIN_ACTIVE_HOURS - 1)..n),
        size \in FlowSizes, alternating \in BOOLEAN }

\* The values a sharpe takes in the model: a loss and a gain.
SharpeValues == {-1, 1}

\* The arguments of the training backtests evaluate_wallet runs: one for
\* every wallet active enough.
TrainedArgs ==
    {TrainArgs(WalletSignal(wallet_flow[w], times), closes, train_end_idx) :
        w \in {v \in DOMAIN wallet_flow :
                  ActiveHours(WalletSignal(wallet_flow[v], times), train_end_idx)
                      >= MIN_ACTIVE_HOURS}}

InitWallets ==
    /\ times = Hours(MaxHours)
    /\ closes \in CloseSeries(MaxHours)
    /\ wallet_flow \in [Wallets(2) -> FlowsByHour(MaxHours)]
    /\ train_end_idx \in (MIN_ACTIVE_HOURS - 1)..MaxHours
    /\ train_sharpe \in [TrainedArgs -> SharpeValues]
    /\ stat = NoStat
    /\ selected = <<>>
    /\ signal = <<>> /\ cost = Zero /\ bt = NoBacktest
    /\ TrackerIdle /\ HistoryIdle
    /\ ScanIdle /\ ConsensusIdle
    /\ AgentIdle /\ ExportIdle

\* stat = evaluate_wallet(wallet, wallet_flow[wallet], times, closes, train_end_idx)
EvaluateWallet(wallet) ==
    /\ stat' = evaluate_wallet(wallet, wallet_flow[wallet], times, closes,
                               train_end_idx)
    /\ UNCHANGED <<times, wallet_flow, train_end_idx, train_sharpe, selected>>
    /\ UNCHANGED <<trackerVars, historyVars, backtestVars, scanVars,
                   consensusVars, agentVars, exportVars>>

\* selected = select_wallets(wallet_flow, times, closes, train_end_idx)
SelectWallets ==
    /\ selected' = select_wallets(wallet_flow, times, closes, train_end_idx)
    /\ UNCHANGED <<times, wallet_flow, train_end_idx, train_sharpe, stat>>
    /\ UNCHANGED <<trackerVars, historyVars, backtestVars, scanVars,
                   consensusVars, agentVars, exportVars>>

NextWallets ==
    \/ \E wallet \in DOMAIN wallet_flow : EvaluateWallet(wallet)
    \/ SelectWallets

SpecWallets == InitWallets /\ [][NextWallets]_vars

(***************************************************************************)
(* The consensus signal (build_combined_signal).  A WalletStat is modelled *)
(* by the two fields the function reads, wallet and weight, and the weight *)
(* by a rational number (write_report also passes the weight 1.0).         *)
(***************************************************************************)
\* sum(w.weight for w in stats)
RECURSIVE TotalWeight(_, _)
TotalWeight(stats_, k) ==
    IF k = 0 THEN Zero ELSE RAdd(TotalWeight(stats_, k - 1), stats_[k].weight)

\* The inner loop over norm_weights.items(): score += w * direction, for
\* the first k stats.
RECURSIVE ScoreAt(_, _, _, _, _)
ScoreAt(stats_, wallet_flow_, ts, total_weight, k) ==
    IF k = 0 THEN Zero
    ELSE RAdd(ScoreAt(stats_, wallet_flow_, ts, total_weight, k - 1),
              RMul(RDiv(stats_[k].weight, total_weight),
                   R(wallet_flow_signal(wallet_flow_[stats_[k].wallet][ts]))))

\* A variant that also takes a score equal to the threshold.
AtOrAbove(score, threshold_) == ~RLt(score, threshold_)

\* score > threshold
Above(score, threshold_) == RLt(threshold_, score)

\* score < -threshold
Below(score, threshold_) == RLt(score, RSub(Zero, threshold_))

\* build_combined_signal(wallet_stats, wallet_flow, times, threshold)
build_combined_signal(wallet_stats_, wallet_flow_, times_, threshold_) ==
    LET total_weight == TotalWeight(wallet_stats_, Len(wallet_stats_))
    IN  IF ~RPos(total_weight)
        THEN [i \in 1..Len(times_) |-> 0]
        ELSE [i \in 1..Len(times_) |->
                LET score == ScoreAt(wallet_stats_, wallet_flow_, times_[i],
                                     total_weight, Len(wallet_stats_))
                IN  IF Above(score, threshold_) THEN 1
                    ELSE IF Below(score, threshold_) THEN -1 ELSE 0]

(***************************************************************************)
(* The consensus specification: build_combined_signal applied to up to     *)
(* MaxSlots hourly bars, the flows of the two wallets, a list of stats of  *)
(* distinct wallets with whole weights up to MaxWeight, and a threshold    *)
(* that is not negative.                                                   *)
(***************************************************************************)
Thresholds == {Zero, Rat(1, 3), Rat(1, 2), R(1)}

WalletSet == Wallets(2)

StatLists ==
    { s \in SeqsUpTo([wallet : WalletSet, weight : {R(w) : w \in 0..MaxWeight}],
                     Cardinality(WalletSet)) :
        \A j, k \in DOMAIN s : j # k => s[j].wallet # s[k].wallet }

InitConsensus ==
    /\ \E n \in 1..MaxSlots :
          /\ times = Hours(n)
          /\ wallet_flow \in [WalletSet -> [1..n -> FlowSizes \cup {0}]]
    /\ wallet_stats \in StatLists
    /\ threshold \in Thresholds
    /\ combined = <<>>
    /\ train_end_idx = 0 /\ train_sharpe = <<>> /\ stat = NoStat
    /\ selected = <<>>
    /\ TrackerIdle /\ HistoryIdle
    /\ BacktestIdle /\ ScanIdle
    /\ AgentIdle /\ ExportIdle

\* combined = build_combined_signal(wallet_stats, wallet_flow, times, threshold)
BuildCombinedSignal ==
    /\ combined' = build_combined_signal(wallet_stats, wallet_flow, times, threshold)
    /\ UNCHANGED <<wallet_stats, threshold>>
    /\ UNCHANGED <<trackerVars, historyVars, backtestVars, scanVars, walletVars,
                   agentVars, exportVars>>

NextConsensus == BuildCombinedSignal

SpecConsensus == InitConsensus /\ [][NextConsensus]_vars

(***************************************************************************)
(* Ingestion and deduplication (news_agent/normalization.py, ingestion.py, *)
(* engine.py).  A payload is a dict, modelled by the keys it holds.        *)
(***************************************************************************)
\* summary.strip().lower() on the summaries of the model.
StripLower(x) ==
    CASE x = "ETH inflow" -> "eth inflow"
      [] x = " eth INFLOW " -> "eth inflow"
      [] x = "BTC listing" -> "btc listing"
      [] OTHER -> x

\* extract_entities(summary): the sorted set of the 2-6 letter words of
\* summary.upper() (no wallet address occurs in the model's summaries).
extract_entities(x) ==
    CASE x = "ETH inflow" -> <<"ETH", "INFLOW">>
      [] x = " eth INFLOW " -> <<"ETH", "INFLOW">>
      [] x = "BTC listing" -> <<"BTC">>
      [] OTHER -> <<>>

\* The entity names of the model in the order sorted() puts them.
EntityAlphabet == <<"BTC", "ETH", "INFLOW">>

\* sorted(entities), for a list without repeated names.
SortedEntities(entities) ==
    SelectSeq(EntityAlphabet,
              LAMBDA e : \E k \in DOMAIN entities : entities[k] = e)

\* duplicate_key(source_type, summary, entities): the text that is hashed;
\* the joining of the three parts and the sha1 digest are taken to be
\* one-to-one.
duplicate_key(source_type, summary, entities) ==
    <<source_type, StripLower(summary), SortedEntities(entities)>>

\* normalize_event raises TypeError / ValueError on this payload: the
\* timestamp does not parse, or a score is not a number.
NormalizeFails(payload) ==
    \/ ParseFails(Get(payload, "timestamp"))
    \/ \E key \in {"sentiment_score", "magnitude_score", "source_credibility"} :
          key \in DOMAIN payload /\ payload[key].t # "num"

\* normalize_event(source_type, payload) where it does not raise.
normalize_event(source_type, payload) ==
    LET summary  == FirstTruthy(<<Get(payload, "summary"), Get(payload, "title"),
                                  Get(payload, "text")>>, Str("")).s
        entities == IF "entities" \in DOMAIN payload /\ payload.entities # <<>>
                    THEN payload.entities ELSE extract_entities(summary)
    IN  [source_type |-> source_type,
         timestamp |-> parse_timestamp(Get(payload, "timestamp")),
         entities |-> entities,
         summary |-> summary,
         raw_data |-> payload,
         duplicate_key |-> duplicate_key(source_type, summary, entities)]

\* BaseIngestor.ingest(payloads): the payloads that normalize, in order.
RECURSIVE ingest(_, _)
ingest(source_type, payloads) ==
    IF payloads = <<>> THEN <<>>
    ELSE IF NormalizeFails(Head(payloads)) THEN ingest(source_type, Tail(payloads))
    ELSE <<normalize_event(source_type, Head(payloads))>>
            \o ingest(source_type, Tail(payloads))

\* The source types of the engine's ingestors, in the order streams holds
\* them.
SourceOrder == <<"onchain", "news", "social", "hyperliquid">>

\* The loop of ingest_all over the first k source types.
RECURSIVE IngestStreams(_, _)
IngestStreams(streams_, k) ==
    IF k = 0 THEN <<>>
    ELSE IngestStreams(streams_, k - 1)
            \o (IF SourceOrder[k] \in DOMAIN streams_
                THEN ingest(SourceOrder[k], streams_[SourceOrder[k]])
                ELSE <<>>)

\* A variant that puts the oldest event first.
OlderFirst(a, b) == a.timestamp < b.timestamp

\* a comes before b in sorted(events, key=timestamp, reverse=True) when
\* b follows a in the list: a is strictly newer.
NewerFirst(a, b) == a.timestamp > b.timestamp

\* event put into a list that is already in order: behind every event it
\* does not come before.
RECURSIVE InsertNewest(_, _)
InsertNewest(event, sorted) ==
    IF sorted = <<>> THEN <<event>>
    ELSE IF NewerFirst(event, Head(sorted)) THEN <<event>> \o sorted
    ELSE <<Head(sorted)>> \o InsertNewest(event, Tail(sorted))

\* sorted(events, key=lambda e: e.timestamp, reverse=True): newest first,
\* events of one timestamp in their order in events.
RECURSIVE SortNewestFirst(_)
SortNewestFirst(events_) ==
    IF events_ = <<>> THEN <<>>
    ELSE InsertNewest(events_[Len(events_)],
                      SortNewestFirst(SubSeq(events_, 1, Len(events_) - 1)))

\* The loop of _deduplicate over the sorted events from index i.
RECURSIVE DedupeLoop(_, _, _, _)
DedupeLoop(sorted, i, seen, deduped) ==
    IF i > Len(sorted) THEN deduped
    ELSE IF sorted[i].duplicate_key \in seen
         THEN DedupeLoop(sorted, i + 1, seen, deduped)
         ELSE DedupeLoop(sorted, i + 1, seen \cup {sorted[i].duplicate_key},
                         Append(deduped, sorted[i]))

\* IntelligenceEngine._deduplicate(events)
deduplicate(events_) == DedupeLoop(SortNewestFirst(events_), 1, {}, <<>>)

\* IntelligenceEngine.ingest_all(streams)
ingest_all(streams_) == deduplicate(IngestStreams(streams_, Len(SourceOrder)))

(***************************************************************************)
(* The engine specification: ingest_all applied to a news stream of up to  *)
(* MaxPayloads payloads and a social stream of at most one.                *)
(***************************************************************************)
Summaries ==
    { [summary |-> Str("ETH inflow")], [title |-> Str(" eth INFLOW ")],
      [summary |-> Str("BTC listing")] }

Stamps == {Num(1), Num(2), Iso(2)}

WithKey(payload, key, value) ==
    [k \in DOMAIN payload \cup {key} |-> IF k = key THEN value ELSE payload[k]]

\* Payloads that normalize: a summary under one of its keys and a
\* timestamp, and two that name their entities.
GoodPayloads ==
    { WithKey(p, "timestamp", ts) : p \in Summaries, ts \in Stamps }
    \cup { [summary |-> Str("ETH inflow"), timestamp |-> Num(1),
            entities |-> <<"ETH", "BTC">>],
           [summary |-> Str("ETH inflow"), timestamp |-> Num(2),
            entities |-> <<"BTC", "ETH">>] }

\* Payloads normalize_event raises on: no timestamp, a timestamp that does
\* not parse, a score that is not a number.
BadPayloads ==
    { [summary |-> Str("ETH inflow")],
      [summary |-> Str("BTC listing"), timestamp |-> Str("soon")],
      [summary |-> Str("BTC listing"), timestamp |-> Num(2),
       magnitude_score |-> Str("high")] }

Payloads == GoodPayloads \cup BadPayloads

InitEngine ==
    /\ \E news \in SeqsUpTo(Payloads, MaxPayloads),
          social \in SeqsUpTo({[summary |-> Str("ETH inflow"), timestamp |-> Num(1)],
                               [summary |-> Str("BTC listing"), timestamp |-> Iso(2)]}, 1) :
          streams = [s \in {"news", "social"} |-> IF s = "news" THEN news ELSE social]
    /\ normalized = <<>>
    /\ events = <<>>
    /\ PersonalizationIdle
    /\ TrackerIdle /\ HistoryIdle
    /\ ReportIdle

\* events = engine.ingest_all(streams)
IngestAll ==
    /\ normalized' = IngestStreams(streams, Len(SourceOrder))
    /\ events' = ingest_all(streams)
    /\ UNCHANGED streams
    /\ UNCHANGED <<trackerVars, historyVars, reportVars, personalizationVars>>

NextEngine == IngestAll

SpecEngine == InitEngine /\ [][NextEngine]_vars

(***************************************************************************)
(* PersonalizationModel (news_agent/personalization.py).  The two          *)
(* defaultdict(int) counters are functions on the categories, 0 where      *)
(* nothing was recorded.                                                   *)
(***************************************************************************)
\* A variant that reads the engagements of all categories together.
EngagedAnywhere(engaged_, category) ==
    LET Sum[S \in SUBSET Categories] ==
            IF S = {} THEN 0
            ELSE LET c == CHOOSE c \in S : TRUE IN engaged_[c] + Sum[S \ {c}]
    IN  Sum[Categories]

\* engaged = self._engaged[category]
Engaged(engaged_, category) == engaged_[category]

\* dismissed = self._dismissed[category]
Dismissed(dismissed_, category) == dismissed_[category]

\* max(0.6, min(1.4, raw))
Clamp(raw) == RMax(Rat(3, 5), RMin(Rat(7, 5), raw))

\* PersonalizationModel.weight_for(category)
weight_for(engaged_, dismissed_, category) ==
    LET e == Engaged(engaged_, category)
        d == Dismissed(dismissed_, category)
        raw == RAdd(R(1), RMul(Rat(e - d, IF e + d > 1 THEN e + d ELSE 1),
                                Rat(1, 2)))
    IN  IF e = 0 /\ d = 0 THEN R(1) ELSE Clamp(raw)

(***************************************************************************)
(* The personalization specification: any sequence of record_engagement,   *)
(* record_dismissal and weight_for calls on one fresh model.               *)
(***************************************************************************)
InitPersonalization ==
    /\ PersonalizationIdle
    /\ EngineIdle
    /\ TrackerIdle /\ HistoryIdle
    /\ ReportIdle

\* model.record_engagement(category)
RecordEngagement(category) ==
    /\ engaged[category] < MaxFeedback
    /\ engaged' = [engaged EXCEPT ![category] = @ + 1]
    /\ weight' = NoWeight
    /\ UNCHANGED dismissed
    /\ UNCHANGED <<trackerVars, historyVars, reportVars, engineVars>>

\* model.record_dismissal(category)
RecordDismissal(category) ==
    /\ dismissed[category] < MaxFeedback
    /\ dismissed' = [dismissed EXCEPT ![category] = @ + 1]
    /\ weight' = NoWeight
    /\ UNCHANGED engaged
    /\ UNCHANGED <<trackerVars, historyVars, reportVars, engineVars>>

\* weight = model.weight_for(category)
WeightFor(category) ==
    /\ weight' = [category |-> category,
                  value |-> weight_for(engaged, dismissed, category)]
    /\ UNCHANGED <<engaged, dismissed>>
    /\ UNCHANGED <<trackerVars, historyVars, reportVars, engineVars>>

NextPersonalization ==
    \E category \in Categories :
        \/ RecordEngagement(category)
        \/ RecordDismissal(category)
        \/ WeightFor(category)

SpecPersonalization == InitPersonalization /\ [][NextPersonalization]_vars

(***************************************************************************)
(* The selection specification: select_wallets applied to a flow file of   *)
(* MaxWallets wallets, more than TOP_WALLETS, over rising or alternating   *)
(* prices.  The first two wallets are long or short on every hour, or      *)
(* idle; the others are long on every hour but the last or on every hour   *)
(* but the first (the sixth and later ones by turns), so that wallets of   *)
(* one weight and different training backtests occur.                      *)
(***************************************************************************)
LeadFlows(n) ==
    { RunOfFlows(n, 1, n, 3, FALSE), RunOfFlows(n, 1, n, -3, FALSE),
      RunOfFlows(n, 1, 0, 3, FALSE) }

TailFlows(n) ==
    { RunOfFlows(n, 1, n - 1, 3, FALSE), RunOfFlows(n, 2, n, 3, FALSE) }

RestFlows(n) ==
    [w \in Wallets(MaxWallets) \ Wallets(5) |->
        LET k == CHOOSE j \in 1..MaxWallets : WalletOrder[j] = w
        IN  IF k % 2 = 0 THEN RunOfFlows(n, 1, n - 1, 3, FALSE)
            ELSE RunOfFlows(n, 2, n, 3, FALSE)]

InitSelection ==
    /\ times = Hours(MaxHours)
    /\ closes \in {c \in CloseSeries(MaxHours) : c[1] <= c[2] \/ c[1] = c[3]}
    /\ wallet_flow \in
          { lead @@ tail @@ RestFlows(MaxHours) :
              lead \in [Wallets(2) -> LeadFlows(MaxHours)],
              tail \in [Wallets(5) \ Wallets(2) -> TailFlows(MaxHours)] }
    /\ train_end_idx \in {MaxHours - 1, MaxHours}
    /\ train_sharpe \in [TrainedArgs -> SharpeValues]
    /\ stat = NoStat
    /\ selected = <<>>
    /\ signal = <<>> /\ cost = Zero /\ bt = NoBacktest
    /\ TrackerIdle /\ HistoryIdle
    /\ ScanIdle /\ ConsensusIdle
    /\ AgentIdle /\ ExportIdle

NextSelection == SelectWallets

SpecSelection == InitSelection /\ [][NextSelection]_vars

(***************************************************************************)
(* The look-ahead specification: evaluate_wallet and select_wallets        *)
(* applied to two wallets that are each long or short on every hour, long  *)
(* on every hour but the last or but the first, alternating, or idle, with *)
(* the training window ending up to two bars before the end of the series. *)
(***************************************************************************)
InitLookAhead ==
    /\ times = Hours(MaxHours)
    /\ closes \in CloseSeries(MaxHours)
    /\ wallet_flow \in
          [Wallets(2) -> LeadFlows(MaxHours) \cup TailFlows(MaxHours)
                           \cup {RunOfFlows(MaxHours, 1, MaxHours, 3, TRUE)}]
    /\ train_end_idx \in (MaxHours - 2)..MaxHours
    /\ train_sharpe \in [TrainedArgs -> SharpeValues]
    /\ stat = NoStat
    /\ selected = <<>>
    /\ signal = <<>> /\ cost = Zero /\ bt = NoBacktest
    /\ TrackerIdle /\ HistoryIdle
    /\ ScanIdle /\ ConsensusIdle
    /\ AgentIdle /\ ExportIdle

SpecLookAhead == InitLookAhead /\ [][NextWallets]_vars

(***************************************************************************)
(* collect_1h_history of get_binance_btc_1h_history.py: the pagination     *)
(* loop over fetch_klines and the deduplication of the rows by open time.  *)
(* The server is free to answer a request with any page of rows, in any    *)
(* order and for any open times; the first field of a row is a JSON        *)
(* number, a string of digits, or some other text.                         *)
(***************************************************************************)
MAX_LIMIT == 1000
ONE_HOUR_MS == 3600000

\* The open times a row can carry: the hours 0..MaxOpenHours.
MaxOpenHours == 2

IntField(ms) == [kind |-> "int", digits |-> TRUE, ms |-> ms]
DigitsField(ms) == [kind |-> "str", digits |-> TRUE, ms |-> ms]
TextField == [kind |-> "str", digits |-> FALSE, ms |-> 0]

\* int(row[0])
IntOf(field) ==
    IF field.kind = "int" \/ field.digits
    THEN [t |-> "int", v |-> field.ms]
    ELSE [t |-> "ValueError"]

OpenFields(n) ==
    {IntField(h * ONE_HOUR_MS) : h \in 0..n}
        \cup {DigitsField(ONE_HOUR_MS), TextField}

\* min(max(limit, 1), MAX_LIMIT), the limit fetch_klines asks for
PageLimit(limit) ==
    LET floor == IF limit > 1 THEN limit ELSE 1
    IN  IF floor < MAX_LIMIT THEN floor ELSE MAX_LIMIT

\* What one fetch_klines call can return.
Pages(limit, n) == SeqsUpTo(OpenFields(n), PageLimit(limit))

\* A variant that never takes a page for a stall.
StalledNever(next_cursor, cursor_) == FALSE

\* if next_cursor <= cursor: break
Stalled(next_cursor, cursor_) == next_cursor <= cursor_

\* deduped[key] = value, on a dict held as a set of <<key, value>> pairs
DictSet(d, key, value) == {item \in d : item[1] # key} \cup {<<key, value>>}

\* deduped after the first k rows: open time -> place of the row kept.
RECURSIVE Deduped(_, _)
Deduped(rows_, k) ==
    IF k = 0 THEN {}
    ELSE DictSet(Deduped(rows_, k - 1), IntOf(rows_[k]).v, k)

\* [deduped[key] for key in sorted(deduped)]
SortedRows(d) ==
    [i \in 1..Cardinality(d) |->
        LET item == CHOOSE x \in d :
                        Cardinality({y \in d : y[1] < x[1]}) = i - 1
        IN  [open_ms |-> item[1], row |-> item[2]]]

\* The statements after the loop: the rows returned, or the ValueError of
\* the first int(row[0]) that fails.
DedupedRows(rows_) ==
    IF \E i \in 1..Len(rows_) : IntOf(rows_[i]).t = "ValueError"
    THEN [t |-> "ValueError"]
    ELSE [t |-> "list", v |-> SortedRows(Deduped(rows_, Len(rows_)))]

InitCollect ==
    /\ cursor \in {0, ONE_HOUR_MS}
    /\ end_ms \in {ONE_HOUR_MS, MaxOpenHours * ONE_HOUR_MS,
                   (MaxOpenHours + 1) * ONE_HOUR_MS}
    /\ request_limit \in {0, 2}
    /\ klines = <<>>
    /\ collect_pc = "loop"
    /\ candles = <<>>
    /\ TrackerIdle /\ HistoryIdle
    /\ BacktestIdle /\ ScanIdle /\ WalletIdle /\ ConsensusIdle
    /\ AgentIdle

\* One iteration of the while loop, with the page the server answered.
FetchPage ==
    /\ collect_pc = "loop"
    /\ cursor < end_ms
    /\ \E batch \in Pages(request_limit, MaxOpenHours) :
          IF batch = <<>>
          THEN /\ collect_pc' = "dedup"
               /\ UNCHANGED <<cursor, klines>>
          ELSE /\ klines' = klines \o batch
               /\ LET last_open_ms == IntOf(batch[Len(batch)])
                  IN  IF last_open_ms.t = "ValueError"
                      THEN /\ collect_pc' = "raised"
                           /\ UNCHANGED cursor
                      ELSE IF Stalled(last_open_ms.v + ONE_HOUR_MS, cursor)
                      THEN /\ collect_pc' = "dedup"
                           /\ UNCHANGED cursor
                      ELSE /\ cursor' = last_open_ms.v + ONE_HOUR_MS
                           /\ collect_pc' = "loop"
    /\ UNCHANGED <<end_ms, request_limit, candles>>
    /\ UNCHANGED <<trackerVars, historyVars, backtestVars, scanVars, walletVars,
                   consensusVars, agentVars>>

\* The loop is over: deduplicate, sort and return.
Deduplicate ==
    /\ collect_pc = "dedup" \/ (collect_pc = "loop" /\ ~(cursor < end_ms))
    /\ LET result == DedupedRows(klines)
       IN  IF result.t = "ValueError"
           THEN collect_pc' = "raised" /\ UNCHANGED candles
           ELSE collect_pc' = "returned" /\ candles' = result.v
    /\ UNCHANGED <<cursor, end_ms, request_limit, klines>>
    /\ UNCHANGED <<trackerVars, historyVars, backtestVars, scanVars, walletVars,
                   consensusVars, agentVars>>

NextCollect == FetchPage \/ Deduplicate

SpecCollect == InitCollect /\ [][NextCollect]_vars

\* The call runs on one thread and every fetch returns: a step that can be
\* taken is taken.
SpecCollectFair == SpecCollect /\ WF_vars(NextCollect)

(***************************************************************************)
(* Vocabulary of the properties of apply_fill: the last call's signed      *)
(* delta, and the case it fell in, read from its arguments and from the     *)
(* state it found.                                                         *)
(***************************************************************************)
Sgn(x) == IF x > 0 THEN 1 ELSE IF x < 0 THEN -1 ELSE 0
Min(a, b) == IF a < b THEN a ELSE b

CallDelta == IF call.side = "buy" THEN call.size ELSE -call.size
CallOpposes == nfills > 0 /\ call.previous_size * CallDelta < 0
CallAdds == nfills > 0 /\ (call.previous_size = 0 \/ call.previous_size * CallDelta > 0)
CallFlips == CallOpposes /\ Abs(CallDelta) > Abs(call.previous_size)
CallReduces == CallOpposes /\ Abs(CallDelta) < Abs(call.previous_size)

\* C1: in every state reached by applying fills (size > 0, price > 0) to a
\* fresh _PositionState, signed_size = 0 implies average_entry = 0.
C1_FlatHasZeroEntry == state.signed_size = 0 => state.average_entry = Zero

\* A position was open and a fill has brought it back to exactly zero.
C1_Witness == nfills >= 2 /\ call.previous_size # 0 /\ state.signed_size = 0

\* C2: a fill whose signed delta opposes the open position S (average entry
\* E) returns realized = min(|S|, |delta|) * (price - E) * sign(S) and
\* exit_price = price, whether it reduces, closes or flips the position.
C2_RealizedOnOpposingFill ==
    CallOpposes =>
        /\ call.realized =
              Rat(Min(Abs(call.previous_size), Abs(CallDelta)) * Sgn(call.previous_size)
                    * (call.price * call.previous_entry[2] - call.previous_entry[1]),
                  call.previous_entry[2])
        /\ call.exit_price = R(call.price)

\* A flipping fill on a short position that realizes a non-zero amount.
C2_Witness ==
    CallFlips /\ call.previous_size < 0 /\ call.realized # Zero

\* C8: when a fill flips the position through zero, signed_size = S + delta
\* with the sign opposite to S, and both average_entry and the returned
\* entry_price equal the fill price.
C8_FlipReopensAtFillPrice ==
    CallFlips =>
        /\ state.signed_size = call.previous_size + CallDelta
        /\ state.signed_size * call.previous_size < 0
        /\ state.average_entry = R(call.price)
        /\ call.entry_price = R(call.price)

\* A flip at a price other than the closed position's average entry.
C8_Witness == CallFlips /\ call.previous_entry # R(call.price)

\* C9: a fill that opens from flat or adds in the direction of the open
\* position returns realized = 0 and exit_price = 0, sets signed_size to
\* S + delta and average_entry to the fill price if S was 0 and otherwise to
\* (|S|*E + |delta|*price) / |S + delta|, and returns it as entry_price.
C9_OpenOrAdd ==
    CallAdds =>
        /\ call.realized = Zero
        /\ call.exit_price = Zero
        /\ state.signed_size = call.previous_size + CallDelta
        /\ state.average_entry =
              IF call.previous_size = 0 THEN R(call.price)
              ELSE Rat(Abs(call.previous_size) * call.previous_entry[1]
                         + Abs(CallDelta) * call.price * call.previous_entry[2],
                       call.previous_entry[2] * Abs(call.previous_size + CallDelta))
        /\ call.entry_price = state.average_entry

\* An add of another size at another price than the position's.
C9_Witness ==
    /\ CallAdds
    /\ call.previous_size # 0
    /\ Abs(CallDelta) # Abs(call.previous_size)
    /\ call.previous_entry # R(call.price)

\* C10: a fill that reduces the position without closing it leaves
\* average_entry unchanged, keeps the sign of signed_size, and returns the
\* average entry held before the fill as entry_price.
C10_PartialCloseKeepsEntry ==
    CallReduces =>
        /\ state.average_entry = call.previous_entry
        /\ state.signed_size * call.previous_size > 0
        /\ call.entry_price = call.previous_entry

\* A partial close at a price other than the average entry.
C10_Witness == CallReduces /\ call.previous_entry # R(call.price)

(***************************************************************************)
(* Vocabulary of the properties of the trade ledger and the row list: the  *)
(* signed size each entry moves its symbol by, and the symbol's net signed *)
(* size before an entry, summed from the entries themselves.               *)
(***************************************************************************)
TradeMoves ==
    [k \in DOMAIN trades |->
        [symbol |-> trades[k].symbol,
         delta |-> IF trades[k].side = "buy" THEN trades[k].size ELSE -trades[k].size]]

RowMoves ==
    [k \in DOMAIN rows |->
        [symbol |-> rows[k].symbol,
         delta |-> IF rows[k].fill_side = "buy" THEN rows[k].fill_size
                   ELSE -rows[k].fill_size]]

RECURSIVE NetUpTo(_, _, _)
NetUpTo(moves, sym, n) ==
    IF n = 0 THEN 0
    ELSE NetUpTo(moves, sym, n - 1)
           + (IF moves[n].symbol = sym THEN moves[n].delta ELSE 0)

NetBefore(moves, k) == NetUpTo(moves, moves[k].symbol, k - 1)

Increases(moves, k) == NetBefore(moves, k) * moves[k].delta > 0
ClosesExactly(moves, k) ==
    NetBefore(moves, k) # 0 /\ NetBefore(moves, k) + moves[k].delta = 0
Reverses(moves, k) ==
    /\ NetBefore(moves, k) * moves[k].delta < 0
    /\ Abs(moves[k].delta) > Abs(NetBefore(moves, k))

\* The latest earlier trade of trade k's symbol.
PrevSame(k) ==
    CHOOSE j \in 1..(k - 1) :
        /\ trades[j].symbol = trades[k].symbol
        /\ \A i \in (j + 1)..(k - 1) : trades[i].symbol # trades[k].symbol

\* closing_size * (exit - entry) * direction - fee, for the position net.
ClosePnl(net, entry, exit, fee) ==
    RSub(RMul(R(Abs(net) * Sgn(net)), RSub(exit, entry)), R(fee))

\* C3 as stated: every trade whose fill fully closes the open position
\* (to exactly zero, or through zero) reports realized_pnl =
\* closing_size * (exit_price - entry_price) * direction - fee.
C3_Original ==
    "aggregate" \in done =>
        \A k \in DOMAIN trades :
            (ClosesExactly(TradeMoves, k) \/ Reverses(TradeMoves, k)) =>
                trades[k].realized_pnl =
                    ClosePnl(NetBefore(TradeMoves, k), trades[k].entry_price,
                             trades[k].exit_price, trades[k].fee)

\* C3 amended: the formula holds of the reported fields for a trade that
\* brings the position to exactly zero; a trade that reverses through zero
\* reports the fill price as entry_price, and its realized_pnl is the
\* formula with the average entry held before the fill (the entry_price of
\* the symbol's previous trade) in place of the reported entry_price.
C3_ClosePnl ==
    "aggregate" \in done =>
        \A k \in DOMAIN trades :
            /\ ClosesExactly(TradeMoves, k) =>
                  trades[k].realized_pnl =
                      ClosePnl(NetBefore(TradeMoves, k), trades[k].entry_price,
                               trades[k].exit_price, trades[k].fee)
            /\ Reverses(TradeMoves, k) =>
                  /\ trades[k].entry_price = R(trades[k].price)
                  /\ trades[k].exit_price = R(trades[k].price)
                  /\ trades[k].realized_pnl =
                        ClosePnl(NetBefore(TradeMoves, k),
                                 trades[PrevSame(k)].entry_price,
                                 trades[k].exit_price, trades[k].fee)

\* A reversing trade with a fee, at a price other than the position's entry.
C3_Witness ==
    /\ "aggregate" \in done
    /\ \E k \in DOMAIN trades :
          /\ Reverses(TradeMoves, k)
          /\ trades[k].fee > 0
          /\ trades[PrevSame(k)].entry_price # trades[k].exit_price

\* C4 as stated: a fill that purely increases an open position reports
\* realized_pnl = 0, whatever its fee, in the trades and in the rows.
C4_Original ==
    /\ "aggregate" \in done =>
          \A k \in DOMAIN trades :
              Increases(TradeMoves, k) => trades[k].realized_pnl = Zero
    /\ "reconstruct" \in done =>
          \A k \in DOMAIN rows :
              Increases(RowMoves, k) => rows[k].realized_pnl = Zero

\* C4 amended: a fill that purely increases an open position reports
\* realized_pnl = -fee (zero exactly when its fee is zero).
C4_IncreaseCostsFee ==
    /\ "aggregate" \in done =>
          \A k \in DOMAIN trades :
              Increases(TradeMoves, k) => trades[k].realized_pnl = R(-trades[k].fee)
    /\ "reconstruct" \in done =>
          \A k \in DOMAIN rows :
              Increases(RowMoves, k) => rows[k].realized_pnl = R(-rows[k].fee)

\* Both functions have returned an increasing fill that carries a fee.
C4_Witness ==
    /\ done = {"aggregate", "reconstruct"}
    /\ \E k \in DOMAIN trades : Increases(TradeMoves, k) /\ trades[k].fee > 0
    /\ \E k \in DOMAIN rows : Increases(RowMoves, k) /\ rows[k].fee > 0

\* None of the keys time / timestamp / ts holds a value that parses.
TimeUnusable(f) ==
    \A key \in {"time", "timestamp", "ts"} :
        Get(f, key).t \notin {"num", "msnum", "iso"}

\* C5: a raw fill whose time is absent or cannot be parsed is rejected: it
\* produces no trade and no row.
C5_Original ==
    \A i \in DOMAIN fills :
        TimeUnusable(fills[i]) =>
            /\ "aggregate" \in done =>
                  \A k \in DOMAIN trades : trades[k].trade_id # Num(i)
            /\ "reconstruct" \in done =>
                  \A k \in DOMAIN rows : rows[k].trade_id # Num(i)

\* A record is malformed when it has no symbol, a size that is zero or
\* missing, or a price that is missing or not positive.
Malformed(f) ==
    \/ \A key \in {"coin", "symbol", "asset"} : ~Truthy(Get(f, key))
    \/ safe_float(<<Get(f, "sz"), Get(f, "size"), Get(f, "sizeDelta")>>, 0) = 0
    \/ safe_float(<<Get(f, "px"), Get(f, "price"), Get(f, "avgPx")>>, 0) <= 0

WellFormedOnly(seq) == SelectSeq(seq, LAMBDA f : ~Malformed(f))

\* C6: malformed records are dropped, and the trades, the performance and
\* the rows are those of the same list with the malformed records removed.
C6_MalformedDropped ==
    /\ "aggregate" \in done =>
          /\ \A i \in DOMAIN fills :
                Malformed(fills[i]) =>
                    \A k \in DOMAIN trades : trades[k].trade_id # Num(i)
          /\ LET out == aggregate_trade_history(Wallet, WellFormedOnly(fills))
             IN  trades = out.trades /\ performance = out.performance
    /\ "reconstruct" \in done =>
          /\ \A i \in DOMAIN fills :
                Malformed(fills[i]) =>
                    \A k \in DOMAIN rows : rows[k].trade_id # Num(i)
          /\ rows = reconstruct_position_history(Wallet, WellFormedOnly(fills))

\* A batch with a malformed record in front of a usable one, processed by
\* both functions.
C6_Witness ==
    /\ done = {"aggregate", "reconstruct"}
    /\ Len(fills) >= 2
    /\ Malformed(fills[1])
    /\ Len(trades) >= 1
    /\ Len(rows) >= 1

\* Non-decreasing timestamps, equal timestamps in input (tid) order.
InReplayOrder(seq) ==
    \A j, k \in DOMAIN seq :
        j < k =>
            /\ seq[j].timestamp <= seq[k].timestamp
            /\ seq[j].timestamp = seq[k].timestamp =>
                  seq[j].trade_id.v < seq[k].trade_id.v

\* C7: the trades and the rows are in non-decreasing timestamp order for
\* any input order, and fills with equal timestamps keep their input order.
C7_StableTimeOrder ==
    /\ "aggregate" \in done => InReplayOrder(trades)
    /\ "reconstruct" \in done => InReplayOrder(rows)

\* An input given latest-first, returned earliest-first by both functions.
C7_Witness ==
    /\ done = {"aggregate", "reconstruct"}
    /\ Len(trades) = 2 /\ Len(rows) = 2
    /\ trades[1].trade_id = Num(2) /\ rows[1].trade_id = Num(2)
    /\ trades[1].timestamp < trades[2].timestamp

\* The number of trades whose fee-inclusive realized_pnl is positive.
Wins(ts) == Cardinality({k \in DOMAIN ts : RPos(ts[k].realized_pnl)})

\* C11: win_rate is the number of trades with fee-inclusive realized_pnl > 0
\* divided by trade_count, where trade_count counts every emitted trade
\* (one per well-formed fill, opening and same-direction fills included);
\* it is 0 when there are no trades, and it lies between 0 and 1.
C11_WinRate ==
    "aggregate" \in done =>
        /\ performance.trade_count = Len(trades)
        /\ Len(trades) = Len(WellFormedOnly(fills))
        /\ performance.win_rate =
              IF Len(trades) = 0 THEN Zero ELSE Rat(Wins(trades), Len(trades))
        /\ ~RPos(RSub(Zero, performance.win_rate))
        /\ ~RPos(RSub(performance.win_rate, R(1)))

\* An opening trade that breaks even followed by a winning close: one win
\* in two trades.
C11_Witness ==
    /\ "aggregate" \in done
    /\ Len(trades) = 2
    /\ NetBefore(TradeMoves, 1) = 0 /\ trades[1].realized_pnl = Zero
    /\ ClosesExactly(TradeMoves, 2) /\ RPos(trades[2].realized_pnl)
    /\ performance.win_rate = Rat(1, 2)

RECURSIVE PrefixPnl(_, _)
PrefixPnl(seq, k) ==
    IF k = 0 THEN Zero ELSE RAdd(PrefixPnl(seq, k - 1), seq[k].realized_pnl)

RECURSIVE PrefixFees(_, _)
PrefixFees(seq, k) ==
    IF k = 0 THEN 0 ELSE PrefixFees(seq, k - 1) + seq[k].fee

\* C12: trade k's cumulative_pnl is the sum of realized_pnl over trades
\* 1..k of all symbols, the last trade's cumulative_pnl is
\* total_realized_pnl, and row k's cumulative_realized_pnl and
\* cumulative_fees are the sums of realized_pnl and fee over rows 1..k of
\* all symbols.
C12_PrefixSums ==
    /\ "aggregate" \in done =>
          /\ \A k \in DOMAIN trades :
                trades[k].cumulative_pnl = PrefixPnl(trades, k)
          /\ trades # <<>> =>
                trades[Len(trades)].cumulative_pnl = performance.total_realized_pnl
    /\ "reconstruct" \in done =>
          \A k \in DOMAIN rows :
              /\ rows[k].cumulative_realized_pnl = PrefixPnl(rows, k)
              /\ rows[k].cumulative_fees = PrefixFees(rows, k)

\* Two fee-paying fills of two different symbols, processed by both
\* functions.
C12_Witness ==
    /\ done = {"aggregate", "reconstruct"}
    /\ Len(trades) = 2 /\ Len(rows) = 2
    /\ trades[1].symbol # trades[2].symbol
    /\ trades[1].realized_pnl # Zero /\ trades[2].realized_pnl # Zero
    /\ rows[1].symbol # rows[2].symbol
    /\ rows[1].fee > 0 /\ rows[2].fee > 0

\* The average entry of symbol sym after rows 1..k, from the rows' own fill
\* fields: zero when flat, the size-weighted mean on an opening or adding
\* fill, the fill price after a reversal, unchanged on a partial close.
RECURSIVE EntryAfterRows(_, _)
EntryAfterRows(sym, k) ==
    IF k = 0 THEN Zero
    ELSE LET before == EntryAfterRows(sym, k - 1)
             n0     == NetUpTo(RowMoves, sym, k - 1)
             n1     == NetUpTo(RowMoves, sym, k)
             d      == RowMoves[k].delta
         IN  IF rows[k].symbol # sym THEN before
             ELSE IF n1 = 0 THEN Zero
             ELSE IF n0 = 0 \/ n0 * d > 0
                  THEN RDivInt(RAdd(RMul(R(Abs(n0)), before),
                                    R(Abs(d) * rows[k].fill_price)), Abs(n1))
             ELSE IF n0 * n1 < 0 THEN R(rows[k].fill_price)
             ELSE before

\* C13: every row reports the post-fill state of its symbol: position_size
\* is the absolute signed size after the fill, position_side is long, short
\* or flat by its sign, flat exactly when position_size = 0, and
\* avg_entry_price is the average entry after the fill (0 when flat).
C13_RowsReportPostFillState ==
    "reconstruct" \in done =>
        \A k \in DOMAIN rows :
            LET net == NetUpTo(RowMoves, rows[k].symbol, k)
            IN  /\ rows[k].position_size = Abs(net)
                /\ rows[k].position_side =
                      (IF net > 0 THEN "long" ELSE IF net < 0 THEN "short" ELSE "flat")
                /\ rows[k].position_side = "flat" <=> rows[k].position_size = 0
                /\ rows[k].avg_entry_price = EntryAfterRows(rows[k].symbol, k)
                /\ net = 0 => rows[k].avg_entry_price = Zero

\* A position opened by the first row and closed to flat by the second.
C13_Witness ==
    /\ "reconstruct" \in done
    /\ Len(rows) = 2
    /\ rows[1].position_side \in {"long", "short"} /\ rows[1].position_size > 0
    /\ RPos(rows[1].avg_entry_price)
    /\ rows[2].symbol = rows[1].symbol
    /\ rows[2].position_side = "flat"

\* The strategy returns run_backtest computes for the signal with element i
\* replaced by v.
StratRetsWith(i, v) ==
    StratRets(Positions([signal EXCEPT ![i] = v], Len(closes)),
              returns_from_close(closes), cost)

\* C14: in run_backtest the position of the first bar is 0 and the position
\* of every later bar is the signal of the bar before it, so replacing the
\* signal of a bar changes the strategy return of no bar up to and
\* including that bar.
C14_OneBarDelay ==
    bt.outcome = "ok" =>
        /\ bt.position[1] = 0
        /\ \A i \in 2..Len(signal) : bt.position[i] = signal[i - 1]
        /\ \A i \in DOMAIN signal :
              \A v \in SignalValues \ {signal[i]}, j \in 1..i :
                  StratRetsWith(i, v)[j] = bt.strat_rets[j]

\* A signal that changes from bar to bar over a moving price, so that the
\* positions and the returns of the later bars depend on it.
C14_Witness ==
    /\ bt.outcome = "ok"
    /\ Len(signal) = 3
    /\ signal[1] # 0 /\ signal[2] # signal[1]
    /\ bt.position = <<0, signal[1], signal[2]>>
    /\ bt.strat_rets[2] # Zero /\ bt.strat_rets[3] # Zero

StrictlyIncreasing(seq) == \A i \in 2..Len(seq) : seq[i - 1] < seq[i]

\* C15: on a strictly increasing price series of at least two bars, with
\* the constant signal 1 and cost 0, run_backtest returns, total_return is
\* price[N-1] / price[0] - 1 and trades is 1.  The call does not return
\* when the series grows by 2 ** (1024 / HOURS_PER_YEAR) a bar or more
\* (about 8.44 per cent): the annualised growth then raises OverflowError.
C15_Original ==
    ( /\ bt.script # "none"
      /\ Len(closes) >= 2 /\ StrictlyIncreasing(closes)
      /\ Len(signal) = Len(closes) /\ \A i \in DOMAIN signal : signal[i] = 1
      /\ cost = Zero )
    => /\ bt.outcome = "ok"
       /\ bt.total_return = RSub(Rat(closes[Len(closes)], closes[1]), R(1))
       /\ bt.trades = 1

\* C20: the trade count of trade_stats is the number of bars i >= 1 whose
\* position is non-zero and differs from the position of bar i - 1; a held
\* non-zero position and a move to flat add no trade.
C20_TradeCount ==
    stats.script # "none" =>
        stats.trades =
            Cardinality({i \in 2..Len(position) :
                            position[i] # 0 /\ position[i] # position[i - 1]})

\* A change of magnitude while open, then a move to flat: one trade.
C20_Witness ==
    /\ stats.script # "none"
    /\ Len(position) = 3
    /\ position[1] > 0 /\ position[2] > 0 /\ position[2] # position[1]
    /\ position[3] = 0
    /\ stats.trades = 1

\* The bars of the training window on which the wallet's flow is not zero.
ActiveInWindow(wallet) ==
    Cardinality({i \in 1..train_end_idx : wallet_flow[wallet][times[i]] # 0})

\* C16: a wallet with fewer than MIN_ACTIVE_HOURS bars of non-zero direction
\* inside the training window gets no WalletStat from evaluate_wallet and
\* is never in the list select_wallets returns, whatever its hit rate;
\* bars outside the window do not count.
C16_TooFewActiveHours ==
    /\ (stat.wallet # "none" /\ ActiveInWindow(stat.wallet) < MIN_ACTIVE_HOURS)
          => stat.returned = "None"
    /\ \A k \in DOMAIN selected :
          ActiveInWindow(selected[k].wallet) >= MIN_ACTIVE_HOURS

\* A wallet long on rising prices with MIN_ACTIVE_HOURS - 1 active bars in
\* the window and one more after it gets nothing, while the other wallet
\* is selected.
C16_Witness ==
    /\ stat.wallet = "0xaaa" /\ stat.returned = "None"
    /\ ActiveInWindow("0xaaa") = MIN_ACTIVE_HOURS - 1
    /\ \E i \in (train_end_idx + 1)..Len(times) : wallet_flow["0xaaa"][i] > 0
    /\ \A i \in 1..train_end_idx : wallet_flow["0xaaa"][i] >= 0
    /\ \A i \in 2..Len(closes) : closes[i] > closes[i - 1]
    /\ Len(selected) = 1 /\ selected[1].wallet = "0xbbb"

\* The sum of the weights of wallet_stats.
WeightSum == TotalWeight(wallet_stats, Len(wallet_stats))

\* The weighted sum of the directions of bar i over the sum of the weights.
RECURSIVE WeightedDirections(_, _)
WeightedDirections(i, k) ==
    IF k = 0 THEN Zero
    ELSE RAdd(WeightedDirections(i, k - 1),
              RMul(wallet_stats[k].weight,
                   R(Sgn(wallet_flow[wallet_stats[k].wallet][times[i]]))))

NormalizedScore(i) == RDiv(WeightedDirections(i, Len(wallet_stats)), WeightSum)

\* C17: a bar is long only when its normalized weighted score is strictly
\* above the threshold and short only when it is strictly below minus the
\* threshold; a bar whose score is exactly the threshold or minus the
\* threshold is flat; every output is -1, 0 or 1.
C17_StrictThreshold ==
    combined # <<>> =>
        /\ Len(combined) = Len(times)
        /\ \A i \in DOMAIN combined :
              /\ combined[i] \in {-1, 0, 1}
              /\ combined[i] # 0 => RPos(WeightSum)
              /\ RPos(WeightSum) =>
                    /\ combined[i] = 1 => RLt(threshold, NormalizedScore(i))
                    /\ combined[i] = -1 =>
                          RLt(NormalizedScore(i), RSub(Zero, threshold))
                    /\ NormalizedScore(i) = threshold => combined[i] = 0
                    /\ NormalizedScore(i) = RSub(Zero, threshold) => combined[i] = 0

\* Two bars of two weighted wallets: one scores exactly the positive
\* threshold and is flat, the other scores above it and is long.
C17_Witness ==
    /\ Len(combined) = 2 /\ Len(wallet_stats) = 2
    /\ RPos(WeightSum) /\ RPos(threshold)
    /\ NormalizedScore(1) = threshold /\ combined[1] = 0
    /\ combined[2] = 1

\* C18: after ingest_all no two returned events share a duplicate_key,
\* every duplicate_key among the normalized input events is that of exactly
\* one returned event, and that event is one of those sharing the key with
\* the latest timestamp among them.
C18_OnePerKeyLatest ==
    /\ \A j, k \in DOMAIN events :
          j # k => events[j].duplicate_key # events[k].duplicate_key
    /\ \A n \in DOMAIN normalized :
          \E k \in DOMAIN events :
              /\ events[k].duplicate_key = normalized[n].duplicate_key
              /\ events[k].timestamp >= normalized[n].timestamp
    /\ \A k \in DOMAIN events :
          \E n \in DOMAIN normalized : events[k] = normalized[n]

\* Two news payloads whose summaries differ only in case and spacing, the
\* older one first: only the newer one is returned.
C18_Witness ==
    /\ Len(normalized) = 2 /\ Len(events) = 1
    /\ normalized[1].summary # normalized[2].summary
    /\ normalized[1].timestamp < normalized[2].timestamp
    /\ events[1] = normalized[2]

\* The counters as they would be had feedback been recorded for category
\* c only.
OnlyOf(counts, c) == [x \in Categories |-> IF x = c THEN counts[c] ELSE 0]

\* C19: weight_for(c) is 1.0 when the engagements and the dismissals of c
\* are equal in number (none included), above 1.0 when the engagements are
\* more, below 1.0 when the dismissals are more, always within [0.6, 1.4],
\* and the same as if no feedback had been recorded for another category.
C19_WeightFollowsFeedback ==
    weight.category # "none" =>
        LET c == weight.category
            e == engaged[c]
            d == dismissed[c]
            w == weight.value
        IN  /\ e = d => w = R(1)
            /\ e > d => RLt(R(1), w)
            /\ e < d => RLt(w, R(1))
            /\ ~RLt(w, Rat(3, 5)) /\ ~RLt(Rat(7, 5), w)
            /\ w = weight_for(OnlyOf(engaged, c), OnlyOf(dismissed, c), c)

\* A category with more engagements than dismissals, weighed while the
\* other category has only dismissals.
C19_Witness ==
    /\ weight.category = "news"
    /\ engaged["news"] = 2 /\ dismissed["news"] = 1
    /\ engaged["social"] = 0 /\ dismissed["social"] = 2
    /\ weight.value = Rat(7, 6)


\* The bar at which the trade entered at bar s stops: the first later bar
\* whose position differs, or the bar after the last one.
TradeEnd(position_, s) ==
    LET later == {j \in (s + 1)..Len(position_) : position_[j] # position_[s]}
    IN  IF later = {} THEN Len(position_) + 1
        ELSE CHOOSE j \in later : \A k \in later : j <= k

\* The last bar whose strategy return belongs to the trade entered at bar
\* s: the bar of the move to flat if the trade ends flat, else the bar
\* before the next trade or the last bar of the series.
TradeLastBar(position_, s) ==
    LET e == TradeEnd(position_, s)
    IN  IF e <= Len(position_) /\ position_[e] = 0 THEN e ELSE e - 1

RECURSIVE SumRange(_, _, _)
SumRange(seq, a, b) ==
    IF b < a THEN Zero ELSE RAdd(SumRange(seq, a, b - 1), seq[b])

\* The bars at which a trade is entered.
TradeEntries(position_) ==
    {s \in 2..Len(position_) :
        position_[s] # 0 /\ position_[s] # position_[s - 1]}

\* The trades whose accumulated strategy return is positive.
WinningEntries(position_, strat_rets_) ==
    {s \in TradeEntries(position_) :
        RPos(SumRange(strat_rets_, s, TradeLastBar(position_, s)))}

\* C21: for a position series that starts flat, as run_backtest passes it,
\* trade_stats scores every counted trade once, as a win iff the strategy
\* returns of its bars (up to the next entry, through the bar of the move
\* to flat, or to the end of the series) sum to a positive number; so
\* wins <= trades, win_rate = wins / trades is within [0, 1], and
\* win_rate = 0 when no trade is counted.
C21_TradesScoredOnce ==
    (stats.script # "none" /\ (position = <<>> \/ position[1] = 0)) =>
        /\ stats.trades = Cardinality(TradeEntries(position))
        /\ stats.wins = Cardinality(WinningEntries(position, strat_rets))
        /\ stats.wins <= stats.trades
        /\ stats.win_rate =
              IF stats.trades > 0 THEN Rat(stats.wins, stats.trades) ELSE Zero
        /\ ~RLt(stats.win_rate, Zero) /\ ~RLt(R(1), stats.win_rate)

\* A losing trade closed by the entry of the next, which is still open and
\* winning at the end of the series.
C21_Witness ==
    /\ stats.script # "none"
    /\ Len(position) = 3 /\ position[1] = 0
    /\ position[2] # 0 /\ position[3] # 0 /\ position[3] # position[2]
    /\ RLt(strat_rets[2], Zero) /\ RPos(strat_rets[3])
    /\ stats.trades = 2 /\ stats.wins = 1

\* The bars among the elements 1..last on which the wallet's flow is not
\* zero.
ActiveBars(wallet, last) ==
    {j \in 1..last : wallet_flow[wallet][times[j]] # 0}

\* The active bars among 1..last whose flow has the sign of the move of the
\* price to the next bar.
MatchingBars(wallet, last) ==
    {j \in ActiveBars(wallet, last) :
        /\ j + 1 <= Len(closes)
        /\ wallet_flow[wallet][times[j]] * (closes[j + 1] - closes[j]) > 0}

\* C22 as stated: hit_rate is the number of active bars of the training
\* window whose signal matches the sign of the next bar's return, divided
\* by the number of active bars of the training window (active_hours).
C22_Original ==
    stat.returned = "WalletStat" =>
        stat.hit_rate =
            Rat(Cardinality(MatchingBars(stat.wallet, train_end_idx)),
                Cardinality(ActiveBars(stat.wallet, train_end_idx)))

\* C22, amended: the last bar of the training window is not scored, its
\* next return lying outside the window.  hit_rate is the number of active
\* bars among the bars 0..train_end_idx - 2 whose signal matches the sign of
\* the next bar's return, divided by the number of active bars among them,
\* and 0 when there is none.
C22_HitRate ==
    stat.returned = "WalletStat" =>
        LET scored  == ActiveBars(stat.wallet, train_end_idx - 1)
            matched == MatchingBars(stat.wallet, train_end_idx - 1)
        IN  stat.hit_rate =
                IF scored = {} THEN Zero
                ELSE Rat(Cardinality(matched), Cardinality(scored))

\* A wallet active on the last bar of the training window, right on some
\* scored bars and wrong on others.
C22_Witness ==
    /\ stat.returned = "WalletStat"
    /\ wallet_flow[stat.wallet][times[train_end_idx]] # 0
    /\ stat.active_hours = Cardinality(ActiveBars(stat.wallet, train_end_idx - 1)) + 1
    /\ RPos(stat.hit_rate) /\ RLt(stat.hit_rate, R(1))

\* What evaluate_wallet returns for a wallet of the flow file.
StatOf(wallet) ==
    evaluate_wallet(wallet, wallet_flow[wallet], times, closes, train_end_idx)

\* The wallets evaluate_wallet returns a WalletStat for.
Scored == {w \in DOMAIN wallet_flow : StatOf(w).returned = "WalletStat"}

\* (score, sharpe) of a is strictly greater than that of b.
PairGreater(a, b) ==
    \/ WeightLess(b.weight, a.weight)
    \/ /\ ~WeightLess(a.weight, b.weight)
       /\ a.sharpe > b.sharpe

\* C23: the list select_wallets returns has at most TOP_WALLETS wallets,
\* each once and with the stat evaluate_wallet gives it, each of strictly
\* positive score (so hit_rate > 0.5 and at least MIN_ACTIVE_HOURS active
\* training bars); it is ordered non-increasing by (score, sharpe); and no
\* scored wallet left out has a (score, sharpe) strictly greater than that
\* of a selected wallet.
C23_TopWallets ==
    /\ Len(selected) <= TOP_WALLETS
    /\ \A k \in DOMAIN selected :
          /\ selected[k].wallet \in Scored
          /\ selected[k] = StatOf(selected[k].wallet)
          /\ WeightPositive(selected[k].weight)
          /\ RLt(Rat(1, 2), selected[k].hit_rate)
          /\ ActiveInWindow(selected[k].wallet) >= MIN_ACTIVE_HOURS
    /\ \A j, k \in DOMAIN selected :
          j < k => /\ selected[j].wallet # selected[k].wallet
                   /\ ~PairGreater(selected[k], selected[j])
    /\ \A k \in DOMAIN selected :
          \A w \in Scored \ {selected[j].wallet : j \in DOMAIN selected} :
              ~PairGreater(StatOf(w), selected[k])

\* More wallets of positive score than TOP_WALLETS: one is left out, and
\* two selected wallets of one score are ordered by their sharpe.
C23_Witness ==
    /\ Len(selected) = TOP_WALLETS
    /\ \E w \in Scored \ {selected[j].wallet : j \in DOMAIN selected} :
          WeightPositive(StatOf(w).weight)
    /\ \E k \in 2..Len(selected) :
          /\ ~WeightLess(selected[k].weight, selected[k - 1].weight)
          /\ selected[k - 1].sharpe > selected[k].sharpe
          /\ selected[k - 1].wallet # WalletOrder[1]
    /\ \E k \in 2..Len(selected) :
          WeightLess(selected[k].weight, selected[k - 1].weight)

\* The cagr is 0: the guarded zero, or a power of base 1 less one.
CagrIsZero(cagr) ==
    \/ cagr.t = "zero"
    \/ cagr.t = "power_minus_one" /\ cagr.base = R(1)

\* C24: for a price series and a signal series of one length N <= 1, the
\* empty series included, run_backtest returns a result with cagr = 0 and
\* sharpe = 0.  The call on the empty series does not return: the exposure
\* divides by len(position) = 0.
C24_Original ==
    ( /\ bt.script # "none"
      /\ Len(closes) <= 1 /\ Len(signal) = Len(closes) )
    => /\ bt.outcome = "ok"
       /\ CagrIsZero(bt.cagr)
       /\ bt.sharpe.t = "zero"

\* The sum of the sizes of the fills on one side among the first k rows of
\* a symbol.
RECURSIVE SideSizes(_, _, _)
SideSizes(sym, side, k) ==
    IF k = 0 THEN 0
    ELSE SideSizes(sym, side, k - 1)
           + (IF rows[k].symbol = sym /\ rows[k].fill_side = side
              THEN rows[k].fill_size ELSE 0)

\* The raw fills that normalize to a fill of the symbol.
FillsOf(sym) ==
    SelectSeq(fills, LAMBDA f : LET n == normalize_fill(Wallet, f)
                                IN  n.t # "none" /\ n.symbol = sym)

\* What a row tells of the position of its symbol.
RowPositions(rows_, sym) ==
    LET own == SelectSeq(rows_, LAMBDA r : r.symbol = sym)
    IN  [k \in DOMAIN own |->
            <<own[k].trade_id, own[k].position_side, own[k].position_size,
              own[k].avg_entry_price>>]

\* What a trade tells of the position of its symbol.
TradePositions(trades_, sym) ==
    LET own == SelectSeq(trades_, LAMBDA t : t.symbol = sym)
    IN  [k \in DOMAIN own |->
            <<own[k].trade_id, own[k].entry_price, own[k].exit_price,
              own[k].realized_pnl>>]

\* C25: after every fill of the replay the signed size of the fill's symbol
\* is the sum of the buy sizes less the sum of the sell sizes of that
\* symbol's fills so far; and the fills of another symbol change nothing
\* of it: the positions, entries and realized amounts reported for a
\* symbol are those of the replay of that symbol's fills alone.
C25_PositionConservation ==
    /\ "reconstruct" \in done =>
          /\ \A k \in DOMAIN rows :
                (IF rows[k].position_side = "short" THEN -rows[k].position_size
                 ELSE rows[k].position_size)
                  = SideSizes(rows[k].symbol, "buy", k)
                      - SideSizes(rows[k].symbol, "sell", k)
          /\ \A sym \in AllSymbols :
                RowPositions(rows, sym) =
                    RowPositions(reconstruct_position_history(Wallet, FillsOf(sym)),
                                 sym)
    /\ "aggregate" \in done =>
          \A sym \in AllSymbols :
              TradePositions(trades, sym) =
                  TradePositions(aggregate_trade_history(Wallet, FillsOf(sym)).trades,
                                 sym)

\* A fill of each of two symbols: the second opens its own position at its
\* own price.
C25_Witness ==
    /\ done = {"aggregate", "reconstruct"}
    /\ Len(rows) = 2 /\ Len(trades) = 2
    /\ rows[1].symbol # rows[2].symbol
    /\ rows[1].position_size > 0 /\ rows[2].position_size > 0
    /\ rows[1].position_size # rows[2].position_size
    /\ rows[1].avg_entry_price # rows[2].avg_entry_price

\* The lists that hold the raw fills in another order.
Reorderings(fills_) ==
    { [i \in DOMAIN fills_ |-> fills_[p[i]]] :
        p \in { q \in [DOMAIN fills_ -> DOMAIN fills_] :
                   \A i, j \in DOMAIN fills_ : i # j => q[i] # q[j] } }

\* The fills that are kept have pairwise distinct timestamps.
DistinctTimestamps(fills_) ==
    LET kept == NormalizeAll(Wallet, fills_)
    IN  \A i, j \in DOMAIN kept :
            i # j => kept[i].timestamp # kept[j].timestamp

\* C26: when the timestamps of the kept fills are pairwise distinct,
\* aggregate_trade_history and reconstruct_position_history return the
\* same trades, performance and rows for every order of the input list.
C26_OrderIndependent ==
    (done # {} /\ DistinctTimestamps(fills)) =>
        \A g \in Reorderings(fills) :
            /\ "aggregate" \in done =>
                  aggregate_trade_history(Wallet, g) =
                      [trades |-> trades, performance |-> performance]
            /\ "reconstruct" \in done =>
                  reconstruct_position_history(Wallet, g) = rows

\* Two fills of one symbol handed over latest first: the replay runs them
\* in the order of their timestamps.
C26_Witness ==
    /\ done = {"aggregate", "reconstruct"}
    /\ DistinctTimestamps(fills)
    /\ Len(fills) = 2 /\ Len(rows) = 2
    /\ rows[1].trade_id = normalize_fill(Wallet, fills[2]).trade_id
    /\ rows[2].trade_id = normalize_fill(Wallet, fills[1]).trade_id
    /\ rows[1].symbol = rows[2].symbol
    /\ rows[1].fill_price # rows[2].fill_price

\* C27: the last element of the signal has no effect on run_backtest: with
\* any other value in its place the call ends the same way, with the same
\* result in every field or with the same exception.
C27_LastSignalUnused ==
    (bt.script # "none" /\ Len(signal) = Len(closes) /\ signal # <<>>) =>
        \A v \in SignalValues :
            run_backtest(bt.script, closes,
                         [signal EXCEPT ![Len(signal)] = v], cost) = bt

\* A backtest that returns with a trade, on a signal whose last element
\* differs from the one before it.
C27_Witness ==
    /\ bt.outcome = "ok"
    /\ Len(signal) = 3 /\ Len(closes) = 3
    /\ signal[3] # 0 /\ signal[3] # signal[2]
    /\ bt.trades >= 1
    /\ bt.total_return # Zero

\* The prices with every bar from train_end_idx on replaced by price.
ClosesThen(price) ==
    [i \in DOMAIN closes |-> IF i <= train_end_idx THEN closes[i] ELSE price]

\* The flows with every bar from train_end_idx on replaced: by first for
\* the first wallet, by others for the other wallets.
FlowsThen(first, others) ==
    [w \in DOMAIN wallet_flow |->
        [h \in DOMAIN wallet_flow[w] |->
            IF h <= train_end_idx THEN wallet_flow[w][h]
            ELSE IF w = WalletOrder[1] THEN first ELSE others]]

\* C28: select_wallets reads no bar from train_end_idx on: for prices and
\* flows that agree with the input on every bar before train_end_idx it
\* returns the same list, with the same wallets in the same order and the
\* same active_hours, hit_rate, training backtest and weight.
C28_NoLookAhead ==
    \A price \in {99, 120}, first \in FlowSizes \cup {0},
       others \in FlowSizes \cup {0} :
        LET out == select_wallets(FlowsThen(first, others), times,
                                  ClosesThen(price), train_end_idx)
        IN  /\ out = select_wallets(wallet_flow, times, closes, train_end_idx)
            /\ selected # <<>> => out = selected

\* A selection made one bar before the end of the series, of a wallet
\* that trades on the last bar, with another wallet left out.
C28_Witness ==
    /\ Len(selected) = 1
    /\ train_end_idx = Len(times) - 1
    /\ wallet_flow[selected[1].wallet][Len(times)] # 0
    /\ \E w \in DOMAIN wallet_flow :
          /\ w # selected[1].wallet
          /\ wallet_flow[w][Len(times)] # 0

\* C29: for a position series that starts flat, as run_backtest passes it,
\* and any strategy returns, the trade_stats of the two scripts return the
\* same trades and the same win_rate, though only one of them sets in_trade
\* on a change while not flat.
C29_SameTradeStats ==
    (stats.script # "none" /\ (position = <<>> \/ position[1] = 0)) =>
        LET a == trade_stats_smart_wallet(position, strat_rets)
            b == trade_stats_strategies(position, strat_rets)
        IN  /\ a.trades = b.trades /\ a.win_rate = b.win_rate
            /\ stats.trades = a.trades /\ stats.win_rate = b.win_rate

\* A winning trade entered from flat, then a change while not flat into a
\* second, losing one, and a move to flat.
C29_Witness ==
    /\ stats.script = "smart_wallet"
    /\ Len(position) = 4 /\ position[1] = 0 /\ position[4] = 0
    /\ position[2] # 0 /\ position[3] # 0 /\ position[3] # position[2]
    /\ RPos(strat_rets[2]) /\ RLt(strat_rets[3], Zero)
    /\ stats.trades = 2 /\ stats.win_rate = Rat(1, 2)

\* The open times of the rows fetched so far.
OpenTimesFetched == {IntOf(klines[i]).v : i \in 1..Len(klines)}

\* The rows returned are in strictly increasing order of open time, one for
\* every open time fetched and none else, each the last row fetched with
\* its open time.
OneRowPerOpenTime ==
    /\ \A i, j \in 1..Len(candles) :
          i < j => candles[i].open_ms < candles[j].open_ms
    /\ {candles[i].open_ms : i \in 1..Len(candles)} = OpenTimesFetched
    /\ \A i \in 1..Len(candles) :
          /\ candles[i].row \in 1..Len(klines)
          /\ IntOf(klines[candles[i].row]).v = candles[i].open_ms
          /\ \A k \in 1..Len(klines) :
                IntOf(klines[k]).v = candles[i].open_ms => k <= candles[i].row

\* C30: whatever pages the server answers, every iteration of the loop of
\* collect_1h_history either leaves the loop or moves the cursor strictly
\* forward, the call comes to an end, and the rows it returns have strictly
\* increasing open times, exactly one row for each open time fetched.
C30_Terminates ==
    /\ [][(collect_pc = "loop" /\ cursor < end_ms) =>
             (collect_pc' # "loop" \/ cursor' > cursor)]_vars
    /\ <>(collect_pc \in {"returned", "raised"})
    /\ [](collect_pc = "returned" => OneRowPerOpenTime)

\* A call that ran until the cursor passed end_ms and returned fewer rows
\* than it fetched, from pages that were not in order of open time.
C30_Witness ==
    /\ collect_pc = "returned"
    /\ cursor >= end_ms
    /\ Len(klines) >= 3
    /\ Len(candles) >= 2 /\ Len(candles) < Len(klines)
    /\ \E i, j \in 1..Len(klines) :
          i < j /\ IntOf(klines[i]).v > IntOf(klines[j]).v
=============================================================================
